---------------------------- MODULE Spec2Model ----------------------------
(***************************************************************************)
(* A model of server/network/aoprotocol.py (tsuserver3): the AO protocol   *)
(* engine.  Text is modelled as sequences of one-character strings, so     *)
(* that framing, field splitting and integer parsing are computed the way  *)
(* the Python code computes them.  A Python value that may be a str or an  *)
(* int is a tagged record [t |-> "str" | "int", v |-> ...].                 *)
(***************************************************************************)
EXTENDS Integers, Sequences, FiniteSets, TLC

VARIABLES
    conn,      \* per connection: AOProtocol.buffer, ping_timeout, the loop's timers, transport state
    client,    \* per connection: the fields of self.client read or written here
    area,      \* per room: the fields of client.area read or written here
    out,       \* what the last callback emitted (sends, broadcasts, disconnects)
    trace,     \* the frames the last callback dispatched, with their outcome
    uncaught,  \* the exception that escaped the last callback ("none" if none)
    clock,     \* number of chunks delivered so far (stands for time())
    call,      \* the last callback: whose it was, and what it was given
    result     \* what get_messages made of call.buffer, where it is run alone

vars == <<conn, client, area, out, trace, uncaught, clock, call, result>>

\* ------------------------------------------------------------------------
\* Bounds and program constants
\* ------------------------------------------------------------------------

\* number of chunks a behaviour delivers
MaxChunks == 2

\* len(self.buffer) > 8192
MaxBuffer == 8192

\* len(self.buffer) >= 24 and '#' not in self.buffer[:24]
HeaderLen == 24

Clients == {1, 2, 3}
Areas == {0, 1}

\* ------------------------------------------------------------------------
\* Python str operations on sequences of characters
\* ------------------------------------------------------------------------

Min(a, b) == IF a < b THEN a ELSE b

Max(a, b) == IF a > b THEN a ELSE b

\* s[i:] with a 0-based Python index i >= 0
Drop(s, i) == SubSeq(s, i + 1, Len(s))

\* s[:i] with a 0-based Python index i >= 0
Take(s, i) == SubSeq(s, 1, Min(i, Len(s)))

\* s.startswith(p)
StartsWith(s, p) == Len(s) >= Len(p) /\ SubSeq(s, 1, Len(p)) = p

\* positions (1-based) at which p occurs in s
Occurrences(s, p) ==
    {i \in 1..(Len(s) - Len(p) + 1) : \A j \in 1..Len(p) : s[i + j - 1] = p[j]}

\* p in s
Contains(s, p) == Occurrences(s, p) # {}

\* s.find(p) + 1: the first position of p in s, 0 when absent
Find(s, p) ==
    LET occ == Occurrences(s, p)
    IN IF occ = {} THEN 0 ELSE CHOOSE i \in occ : \A k \in occ : i <= k

\* s.split(p, 1)
SplitOnce(s, p) ==
    LET i == Find(s, p)
    IN IF i = 0 THEN <<s>>
       ELSE <<SubSeq(s, 1, i - 1), SubSeq(s, i + Len(p), Len(s))>>

\* s.split(p)
RECURSIVE Split(_, _)
Split(s, p) ==
    LET i == Find(s, p)
    IN IF i = 0 THEN <<s>>
       ELSE <<SubSeq(s, 1, i - 1)>> \o Split(SubSeq(s, i + Len(p), Len(s)), p)

\* p.join(parts)
RECURSIVE Join(_, _)
Join(parts, p) ==
    IF Len(parts) = 0 THEN <<>>
    ELSE IF Len(parts) = 1 THEN parts[1]
    ELSE parts[1] \o p \o Join(Tail(parts), p)

\* the characters str.strip() removes
Whitespace == {" ", "\t", "\n", "\r"}

\* s.lstrip()
RECURSIVE LStrip(_)
LStrip(s) == IF Len(s) > 0 /\ s[1] \in Whitespace THEN LStrip(Tail(s)) ELSE s

\* s.rstrip()
RECURSIVE RStrip(_)
RStrip(s) ==
    IF Len(s) > 0 /\ s[Len(s)] \in Whitespace
    THEN RStrip(SubSeq(s, 1, Len(s) - 1)) ELSE s

\* s.strip()
Strip(s) == LStrip(RStrip(s))

Digits == <<"0", "1", "2", "3", "4", "5", "6", "7", "8", "9">>

DigitSet == {Digits[i] : i \in 1..Len(Digits)}

DigitVal(ch) == (CHOOSE i \in 1..Len(Digits) : Digits[i] = ch) - 1

\* s.isdigit()
IsDigit(s) == Len(s) > 0 /\ \A i \in 1..Len(s) : s[i] \in DigitSet

RECURSIVE DigitsVal(_)
DigitsVal(s) ==
    IF Len(s) = 0 THEN 0
    ELSE 10 * DigitsVal(SubSeq(s, 1, Len(s) - 1)) + DigitVal(s[Len(s)])

\* int(s) for a str s: surrounding whitespace, an optional sign, decimal digits.
\* [ok |-> FALSE] stands for ValueError.
ParseInt(s) ==
    LET b == Strip(s)
        signed == Len(b) > 0 /\ b[1] \in {"-", "+"}
        d == IF signed THEN Tail(b) ELSE b
    IN IF IsDigit(d)
       THEN [ok |-> TRUE,
             v |-> IF signed /\ b[1] = "-" THEN 0 - DigitsVal(d) ELSE DigitsVal(d)]
       ELSE [ok |-> FALSE, v |-> 0]

RECURSIVE NatStr(_)
NatStr(n) == IF n < 10 THEN <<Digits[n + 1]>> ELSE NatStr(n \div 10) \o <<Digits[(n % 10) + 1]>>

\* str(n) for an int n
IntStr(n) == IF n < 0 THEN <<"-">> \o NatStr(0 - n) ELSE NatStr(n)

\* tagged Python values
S(s) == [t |-> "str", v |-> s]

I(n) == [t |-> "int", v |-> n]

\* str(x)
Str(x) == IF x.t = "int" THEN IntStr(x.v) ELSE x.v

\* x == n for an int literal n (a str never equals an int)
EqInt(x, n) == x.t = "int" /\ x.v = n


\* ------------------------------------------------------------------------
\* Legacy decoder (server/fantacrypt.py, named by line 30; not part of src/)
\* ------------------------------------------------------------------------

Ascii ==
    <<" ", "!", "\"", "#", "$", "%", "&", "'", "(", ")", "*", "+", ",", "-", ".", "/">>
    \o <<"0", "1", "2", "3", "4", "5", "6", "7", "8", "9", ":", ";", "<", "=", ">", "?">>
    \o <<"@", "A", "B", "C", "D", "E", "F", "G", "H", "I", "J", "K", "L", "M", "N", "O">>
    \o <<"P", "Q", "R", "S", "T", "U", "V", "W", "X", "Y", "Z", "[", "\\", "]", "^", "_">>
    \o <<"BQ", "a", "b", "c", "d", "e", "f", "g", "h", "i", "j", "k", "l", "m", "n", "o">>
    \o <<"p", "q", "r", "s", "t", "u", "v", "w", "x", "y", "z", "{", "|", "}", "~">>

\* chr(n); "NP" stands for every character outside printable ASCII and "BQ"
\* for the grave accent (chr(96))
Chr(n) == IF n >= 32 /\ n <= 126 THEN Ascii[n - 31] ELSE "NP"

HexDigits ==
    <<"0", "1", "2", "3", "4", "5", "6", "7", "8", "9", "A", "B", "C", "D", "E", "F">>

HexLower == <<"a", "b", "c", "d", "e", "f">>

IsHex(ch) ==
    \/ \E i \in 1..Len(HexDigits) : HexDigits[i] = ch
    \/ \E i \in 1..Len(HexLower) : HexLower[i] = ch

HexVal(ch) ==
    IF \E i \in 1..Len(HexLower) : HexLower[i] = ch
    THEN 9 + (CHOOSE i \in 1..Len(HexLower) : HexLower[i] = ch)
    ELSE (CHOOSE i \in 1..Len(HexDigits) : HexDigits[i] = ch) - 1

\* a ^ b on naturals
RECURSIVE Xor(_, _)
Xor(a, b) ==
    IF a = 0 THEN b
    ELSE IF b = 0 THEN a
    ELSE 2 * Xor(a \div 2, b \div 2) + (((a % 2) + (b % 2)) % 2)

\* the low 16 bits of ((byte + key) * 53761) + 32618, computed without
\* leaving 32-bit range: 53761 = 210 * 256 + 1
NextKey(byte, key) ==
    LET a == (byte + key) % 65536
    IN ((((a * 210) % 256) * 256) + a + 32618) % 65536

RECURSIVE FantaBytes(_, _)
FantaBytes(bytes, key) ==
    IF Len(bytes) = 0 THEN <<>>
    ELSE <<Chr(Xor(bytes[1], key \div 256))>>
         \o FantaBytes(Tail(bytes), NextKey(bytes[1], key))

\* fanta_decrypt(data): hex pairs, each XORed with the high byte of a rolling
\* 16-bit key that starts at 5.  [ok |-> FALSE] stands for the ValueError of
\* a first field that is not hexadecimal.
fanta_decrypt(data) ==
    IF \E i \in 1..Len(data) : ~IsHex(data[i])
    THEN [ok |-> FALSE, v |-> <<>>]
    ELSE LET n == (Len(data) + 1) \div 2
             byte(k) == IF 2 * k <= Len(data)
                        THEN 16 * HexVal(data[2 * k - 1]) + HexVal(data[2 * k])
                        ELSE HexVal(data[2 * k - 1])
         IN [ok |-> TRUE, v |-> FantaBytes([k \in 1..n |-> byte(k)], 5)]

\* ------------------------------------------------------------------------
\* Frame extraction
\* ------------------------------------------------------------------------

Terminator == <<"#", "%">>

\* a long-header test that looks for '#' in the whole buffer
LongHeader_whole(buffer) ==
    Len(buffer) >= HeaderLen /\ ~Contains(buffer, <<"#">>)

\* len(self.buffer) >= 24 and '#' not in self.buffer[:24]
LongHeader(buffer) ==
    Len(buffer) >= HeaderLen /\ ~Contains(Take(buffer, HeaderLen), <<"#">>)

\* the while loop of get_messages: each yield is the frame together with the
\* value self.buffer has while the consumer handles that frame
RECURSIVE Yields(_)

\* an if in the place of the while: only the first frame is taken
Yields_once(buffer) ==
    IF Contains(buffer, Terminator)
    THEN <<[msg |-> SplitOnce(buffer, Terminator)[1],
            buffer |-> SplitOnce(buffer, Terminator)[2]]>>
    ELSE <<>>

Yields(buffer) ==
    IF Contains(buffer, Terminator)
    THEN LET spl == SplitOnce(buffer, Terminator)
         IN <<[msg |-> spl[1], buffer |-> spl[2]]>> \o Yields(spl[2])
    ELSE <<>>

\* get_messages, run to exhaustion on a buffer: raised stands for ProtocolError
get_messages(buffer) ==
    IF LongHeader(buffer)
    THEN [raised |-> TRUE, yields |-> <<>>, buffer |-> buffer]
    ELSE LET ys == Yields(buffer)
         IN [raised |-> FALSE, yields |-> ys,
             buffer |-> IF Len(ys) = 0 THEN buffer ELSE ys[Len(ys)].buffer]

\* ------------------------------------------------------------------------
\* The world a callback runs in, and the collaborators' operations on it
\* ------------------------------------------------------------------------

\* exc is the exception in flight ("none" when the code runs normally)
\* ret and dialect are where the running handler returned and the MS shape it
\* committed to; trace collects them per dispatched frame
World == [conn |-> conn, client |-> client, area |-> area, out |-> <<>>,
          trace |-> <<>>, exc |-> "none", ret |-> "", dialect |-> 0,
          now |-> clock + 1]

Raise(W, e) == [W EXCEPT !.exc = e]

Emit(W, e) == [W EXCEPT !.out = Append(@, e)]

\* client.send_command(cmd, *args)
send_command(W, c, cmd, args) ==
    Emit(W, [ev |-> "send", to |-> c, cmd |-> cmd, args |-> args])

\* client.send_ooc(msg): a private notice
send_ooc(W, c, msg) ==
    Emit(W, [ev |-> "send", to |-> c, cmd |-> "CT", args |-> <<msg>>])

\* client.disconnect(): closes the transport
disconnect(W, c) ==
    [Emit(W, [ev |-> "disconnect", to |-> c, cmd |-> "", args |-> <<>>])
        EXCEPT !.conn[c].transport = "closing"]

\* area.send_command(cmd, *args): to every client of the room
area_send_command(W, a, cmd, args) ==
    Emit(W, [ev |-> "area", to |-> a, cmd |-> cmd, args |-> args])

\* area.send_owner_command(cmd, *args): to the room's owners elsewhere
area_send_owner_command(W, a, cmd, args) ==
    Emit(W, [ev |-> "owner", to |-> a, cmd |-> cmd, args |-> args])

\* area.broadcast_ooc(msg)
area_broadcast_ooc(W, a, msg) ==
    Emit(W, [ev |-> "area", to |-> a, cmd |-> "CT", args |-> <<msg>>])


\* ------------------------------------------------------------------------
\* Collaborators the protocol consults: server, database, client manager
\* ------------------------------------------------------------------------

\* client.ipid: the network identity of a connection
Ipid(c) == c

\* the ban records of the database: reason, ban id, and an expiry instant that
\* is "None" for an indefinite ban
Bans ==
    <<[ipid |-> 0, hdid |-> <<"b", "1">>, reason |-> "r1", ban_id |-> 1, unban_date |-> "2030"],
      [ipid |-> 0, hdid |-> <<"b", "2">>, reason |-> "r2", ban_id |-> 2, unban_date |-> "None"],
      [ipid |-> 3, hdid |-> <<>>, reason |-> "r3", ban_id |-> 3, unban_date |-> "2031"]>>

NoBan == [ipid |-> 0, hdid |-> <<>>, reason |-> "", ban_id |-> 0, unban_date |-> "None"]

\* database.find_ban(ipid, hdid): the ban on either identity, None without one
find_ban(ipid, hdid) ==
    LET hit == {i \in 1..Len(Bans) : Bans[i].ipid = ipid \/ Bans[i].hdid = hdid}
    IN IF hit = {} THEN NoBan ELSE Bans[CHOOSE i \in hit : \A k \in hit : i <= k]

\* server.char_list: character id -> name (the asset folder of the character)
CharList == <<<<"A", "a">>, <<"B", "b">>, <<"C", "c">>>>

CharIds == 0..(Len(CharList) - 1)

\* client.char_name
char_name(W, c) ==
    IF W.client[c].char_id \in CharIds THEN CharList[W.client[c].char_id + 1] ELSE <<>>

\* client.change_character(cid): ClientError for an id that is no character or
\* that another client of the room holds; -1 is the spectator
change_character(W, c, cid) ==
    LET here == W.area[W.client[c].area].clients
    IN IF cid # -1 /\ cid \notin CharIds THEN Raise(W, "ClientError")
       ELSE IF cid # -1 /\ \E o \in here \ {c} : W.client[o].char_id = cid
       THEN Raise(W, "ClientError")
       ELSE send_command([W EXCEPT !.client[c].char_id = cid,
                                   !.client[c].pos = <<>>],
                         c, "PV", <<I(c), S(<<"C", "I", "D">>), I(cid)>>)

\* ------------------------------------------------------------------------
\* Argument validation
\* ------------------------------------------------------------------------

\* the for loop of validate_net_cmd from argument i on; args is coerced in
\* place, also when a later argument fails
RECURSIVE ValidateArgs(_, _, _)
ValidateArgs(args, types, i) ==
    IF i > Len(args) THEN [ok |-> TRUE, args |-> args]
    ELSE IF Len(Str(args[i])) = 0 /\ types[i] # "STR_OR_EMPTY"
    THEN [ok |-> FALSE, args |-> args]
    ELSE IF types[i] = "INT"
    THEN IF args[i].t = "int" THEN ValidateArgs(args, types, i + 1)
         ELSE LET p == ParseInt(args[i].v)
              IN IF p.ok
                 THEN ValidateArgs([args EXCEPT ![i] = I(p.v)], types, i + 1)
                 ELSE [ok |-> FALSE, args |-> args]
    ELSE ValidateArgs(args, types, i + 1)

\* a validator that never asks for a character
validate_net_cmd_open(W, c, args, types, needs_auth) ==
    IF Len(args) # Len(types) THEN [ok |-> FALSE, args |-> args]
    ELSE ValidateArgs(args, types, 1)

\* validate_net_cmd(args, *types, needs_auth): ArgType.INT_OR_STR is a member
\* of its own (its value 3 differs from INT's (3,)), so it is never coerced
validate_net_cmd(W, c, args, types, needs_auth) ==
    IF needs_auth /\ W.client[c].char_id = -1 THEN [ok |-> FALSE, args |-> args]
    ELSE IF Len(args) # Len(types) THEN [ok |-> FALSE, args |-> args]
    ELSE ValidateArgs(args, types, 1)

\* ------------------------------------------------------------------------
\* Handshake, version, keepalive and list handlers
\* ------------------------------------------------------------------------

\* a handshake that looks up no ban
net_cmd_hi_trusting(W, c, args) ==
    IF W.client[c].is_checked THEN disconnect(W, c)
    ELSE LET v == validate_net_cmd(W, c, args, <<"STR">>, FALSE)
         IN IF ~v.ok THEN W
            ELSE [W EXCEPT !.client[c].hdid = v.args[1].v,
                           !.client[c].is_checked = TRUE]

\* net_cmd_hi: 'N/A'.humanize() is an AttributeError (a str has no humanize)
net_cmd_hi(W, c, args) ==
    IF W.client[c].is_checked THEN disconnect(W, c)
    ELSE LET v == validate_net_cmd(W, c, args, <<"STR">>, FALSE)
         IN IF ~v.ok THEN W
            ELSE LET hdid == v.args[1].v
                     W1 == [W EXCEPT !.client[c].hdid = hdid]
                     ban == find_ban(Ipid(c), hdid)
                 IN IF ban # NoBan
                    THEN IF ban.unban_date # "None"
                         THEN disconnect(
                                  send_command(W1, c, "BD",
                                      <<ban.reason, ban.ban_id, ban.unban_date>>), c)
                         ELSE Raise(W1, "AttributeError")
                    ELSE send_command(
                             send_command([W1 EXCEPT !.client[c].is_checked = TRUE],
                                          c, "ID", <<c>>),
                             c, "PN", <<>>)

\* net_cmd_id: args[1] is an IndexError when fewer than two fields came
net_cmd_id(W, c, args) ==
    IF Len(args) < 2 THEN Raise(W, "IndexError")
    ELSE LET version == Split(args[2].v, <<".">>)
             W1 == IF Len(version) <= 1
                   THEN [W EXCEPT !.client[c].release = args[2].v]
                   ELSE [W EXCEPT !.client[c].release = version[1],
                                  !.client[c].major_version = version[2]]
             W2 == IF Len(version) >= 3
                   THEN [W1 EXCEPT !.client[c].minor_version = version[3]]
                   ELSE W1
         IN send_command(W2, c, "FL", <<>>)

\* handle.cancel(): a timer that has not fired yet never will
cancel(timers, h) == [timers EXCEPT ![h] = IF @ = "armed" THEN "cancelled" ELSE @]

\* loop.call_later(timeout, client.disconnect): one more timer is armed; its
\* handle is its place among the timers of the connection
call_later(timers) == Append(timers, "armed")

\* net_cmd_ch without the cancel of line 279
net_cmd_ch_keep(W, c, args) ==
    [send_command(W, c, "CHECK", <<>>) EXCEPT
        !.conn[c].timers = call_later(@),
        !.conn[c].ping_timeout = Len(W.conn[c].timers) + 1]

\* net_cmd_ch: the reply, then the held deadline timer is cancelled and a new
\* one armed and held
net_cmd_ch(W, c, args) ==
    [send_command(W, c, "CHECK", <<>>) EXCEPT
        !.conn[c].timers = call_later(cancel(@, W.conn[c].ping_timeout)),
        !.conn[c].ping_timeout = Len(W.conn[c].timers) + 1]

\* net_cmd_askchaa, were it to reset the deadline as a keepalive does
net_cmd_askchaa_rearm(W, c, args) ==
    [send_command(W, c, "SI", <<>>) EXCEPT
        !.conn[c].timers = call_later(cancel(@, W.conn[c].ping_timeout)),
        !.conn[c].ping_timeout = Len(W.conn[c].timers) + 1]

\* net_cmd_askchaa
net_cmd_askchaa(W, c, args) == send_command(W, c, "SI", <<>>)

\* net_cmd_askchar2
net_cmd_askchar2(W, c, args) == send_command(W, c, "CI", <<>>)

\* net_cmd_an: one page of characters, here a single page
net_cmd_an(W, c, args) ==
    LET v == validate_net_cmd(W, c, args, <<"INT">>, FALSE)
    IN IF ~v.ok THEN W
       ELSE IF v.args[1].v = 0 THEN send_command(W, c, "CI", <<>>)
       ELSE send_command(W, c, "EM", <<>>)

\* net_cmd_ae
net_cmd_ae(W, c, args) == W

\* client.send_done(), client.send_area_list(), client.send_motd()
send_done_etc(W, c) ==
    send_command(send_command(send_command(W, c, "DONE", <<>>), c, "FA", <<>>),
                 c, "CT", <<"motd">>)

\* net_cmd_am: one page of music, here a single page
net_cmd_am(W, c, args) ==
    LET v == validate_net_cmd(W, c, args, <<"INT">>, FALSE)
    IN IF ~v.ok THEN W
       ELSE IF v.args[1].v = 0 THEN send_command(W, c, "EM", <<>>)
       ELSE send_done_etc(W, c)

\* net_cmd_rc
net_cmd_rc(W, c, args) == send_command(W, c, "SC", <<>>)

\* net_cmd_rm
net_cmd_rm(W, c, args) == send_command(W, c, "SM", <<>>)

\* net_cmd_rd
net_cmd_rd(W, c, args) == send_done_etc(W, c)

\* net_cmd_cc: the ClientError of change_character is caught here
net_cmd_cc(W, c, args) ==
    LET v == validate_net_cmd(W, c, args, <<"INT", "INT", "STR">>, FALSE)
    IN IF ~v.ok THEN W
       ELSE IF ~W.client[c].is_checked THEN W
       ELSE LET W1 == change_character(W, c, v.args[2].v)
            IN IF W1.exc = "ClientError" THEN W ELSE W1


\* ------------------------------------------------------------------------
\* The room collaborator (server/area_manager.py, not part of src/)
\* ------------------------------------------------------------------------

AreaOf(W, c) == W.client[c].area

\* area.can_send_message(client): false while the pacing delay set by the
\* previous IC message of the room runs
can_send_message(W, c) == ~W.area[AreaOf(W, c)].msg_blocked

\* area.client_can_additive(client)
client_can_additive(W, c) == W.area[AreaOf(W, c)].additive_allowed

\* area.is_iniswap(client, pre, anim, folder, sfx): the folder differs from
\* the client's character in a room that forbids swapped assets
is_iniswap(W, c, pre, anim, folder, sfx) ==
    ~W.area[AreaOf(W, c)].iniswap_allowed /\ folder # char_name(W, c)

\* whether the client may direct the room's testimony
testimony_permitted(W, c) ==
    c \in W.area[AreaOf(W, c)].owners \/ W.area[AreaOf(W, c)].testimony_open

\* Testimony(title, limit)
NewTestimony(title) == [title |-> title, statements |-> <<>>]

\* server.config['testimony_limit']: the most statements a testimony holds
TestimonyLimit == 3

\* testimony.add_statement(statement): False at the statement limit
add_statement(W, a, statement) ==
    IF Len(W.area[a].testimony.statements) >= TestimonyLimit
    THEN [ok |-> FALSE, W |-> W]
    ELSE [ok |-> TRUE,
          W |-> [W EXCEPT !.area[a].testimony.statements = Append(@, statement)]]

\* area.start_testimony(client, title)
start_testimony(W, c, title) ==
    LET a == AreaOf(W, c)
    IN IF ~testimony_permitted(W, c)
       THEN [ok |-> FALSE, W |-> send_ooc(W, c, "testimony: no permission")]
       ELSE IF W.area[a].is_testifying
       THEN [ok |-> FALSE, W |-> send_ooc(W, c, "testimony: already recording")]
       ELSE IF W.area[a].is_examining
       THEN [ok |-> FALSE, W |-> send_ooc(W, c, "testimony: examination running")]
       ELSE IF title = <<>>
       THEN [ok |-> FALSE, W |-> send_ooc(W, c, "testimony: no title")]
       ELSE [ok |-> TRUE,
             W |-> area_send_command(
                       area_broadcast_ooc(
                           [W EXCEPT !.area[a].testimony = NewTestimony(title),
                                     !.area[a].is_testifying = TRUE],
                           a, "testimony: recording"),
                       a, "RT", <<"testimony1">>)]

\* area.start_examination(client)
start_examination(W, c) ==
    LET a == AreaOf(W, c)
    IN IF ~testimony_permitted(W, c)
       THEN [ok |-> FALSE, W |-> send_ooc(W, c, "testimony: no permission")]
       ELSE IF W.area[a].is_testifying
       THEN [ok |-> FALSE, W |-> send_ooc(W, c, "testimony: already recording")]
       ELSE IF W.area[a].is_examining
       THEN [ok |-> FALSE, W |-> send_ooc(W, c, "testimony: examination running")]
       ELSE IF Len(W.area[a].testimony.statements) <= 1
       THEN [ok |-> FALSE, W |-> send_ooc(W, c, "testimony: nothing to examine")]
       ELSE [ok |-> TRUE,
             W |-> area_send_command(
                       [W EXCEPT !.area[a].is_examining = TRUE,
                                 !.area[a].examine_index = 0],
                       a, "RT", <<"testimony2">>)]

\* area.end_testimony(client)
end_testimony(W, c) ==
    LET a == AreaOf(W, c)
    IN IF ~testimony_permitted(W, c)
       THEN [ok |-> FALSE, W |-> send_ooc(W, c, "testimony: no permission")]
       ELSE IF W.area[a].is_testifying
       THEN IF Len(W.area[a].testimony.statements) <= 1
            THEN [ok |-> FALSE, W |-> send_ooc(W, c, "testimony: add a statement first")]
            ELSE [ok |-> TRUE,
                  W |-> area_broadcast_ooc([W EXCEPT !.area[a].is_testifying = FALSE],
                                           a, "testimony: recording stopped")]
       ELSE IF W.area[a].is_examining
       THEN [ok |-> TRUE,
             W |-> area_broadcast_ooc([W EXCEPT !.area[a].is_examining = FALSE],
                                      a, "testimony: examination stopped")]
       ELSE [ok |-> FALSE, W |-> send_ooc(W, c, "testimony: none in progress")]

\* area.amend_testimony(client, index, statement): statement 0 is the title
amend_testimony(W, c, index, statement) ==
    LET a == AreaOf(W, c)
    IN IF ~testimony_permitted(W, c)
       THEN [ok |-> FALSE, W |-> send_ooc(W, c, "testimony: no permission")]
       ELSE IF index < 1 \/ index >= Len(W.area[a].testimony.statements)
       THEN [ok |-> FALSE, W |-> send_ooc(W, c, "testimony: cannot amend")]
       ELSE [ok |-> TRUE,
             W |-> send_ooc([W EXCEPT !.area[a].testimony.statements[index + 1] = statement],
                            c, "testimony: amended")]

\* area.remove_statement(client, index)
remove_statement(W, c, index) ==
    LET a == AreaOf(W, c)
        st == W.area[a].testimony.statements
    IN IF ~testimony_permitted(W, c)
       THEN [ok |-> FALSE, W |-> send_ooc(W, c, "testimony: no permission")]
       ELSE IF index < 1 \/ index >= Len(st)
       THEN [ok |-> FALSE, W |-> send_ooc(W, c, "testimony: cannot remove")]
       ELSE [ok |-> TRUE,
             W |-> send_ooc(
                       [W EXCEPT !.area[a].testimony.statements =
                                     SubSeq(st, 1, index) \o SubSeq(st, index + 2, Len(st)),
                                 !.area[a].examine_index =
                                     IF @ >= Len(st) - 1 THEN Len(st) - 2 ELSE @],
                       c, "testimony: removed")]

\* area.navigate_testimony(client, command, index): moves the cursor forward
\* ('>'), backward ('<') or to an absolute statement ('='), then replays the
\* statement under the cursor to the room.  index is [ok |-> FALSE] when absent.
navigate_testimony(W, c, command, index) ==
    LET a == AreaOf(W, c)
        n == Len(W.area[a].testimony.statements)
        cur == W.area[a].examine_index
        step == IF index.ok THEN index.v ELSE 1
        want == IF command = ">" THEN cur + step
                ELSE IF command = "<" THEN cur - step
                ELSE IF index.ok THEN index.v ELSE cur
    IN IF ~testimony_permitted(W, c)
       THEN send_ooc(W, c, "testimony: no permission")
       ELSE IF want < 1 \/ want >= n
       THEN send_ooc(W, c, "testimony: no such statement")
       ELSE area_send_command([W EXCEPT !.area[a].examine_index = want],
                              a, "MS", W.area[a].testimony.statements[want + 1])

\* evi_list.create_evi_list(client): 0, then the numbers (from 1) of the
\* pieces of evidence the client may see
create_evi_list(W, a, k) ==
    <<0>> \o SelectSeq([i \in 1..Len(W.area[a].evidences) |-> i],
                       LAMBDA i : W.area[a].evidences[i].pos
                                      \in {<<"a", "l", "l">>, W.client[k].pos})

\* area.broadcast_evidence_list(): every client of the room gets the list
\* it may see, and its evi_list is set to match
broadcast_evidence_list(W, a) ==
    area_send_command(
        [W EXCEPT !.client = [k \in Clients |->
            IF k \in W.area[a].clients
            THEN [W.client[k] EXCEPT !.evi_list = create_evi_list(W, a, k)]
            ELSE W.client[k]]],
        a, "LE", <<>>)

\* area.set_next_msg_delay(msg_length): the pacing delay runs from now on
set_next_msg_delay(W, a, n) == [W EXCEPT !.area[a].msg_blocked = TRUE]

\* client_manager.toggle_afk(client) for a client that is marked away
toggle_afk(W, c) ==
    send_ooc([W EXCEPT !.area[AreaOf(W, c)].afkers = @ \ {c}], c, "no longer AFK")


\* ------------------------------------------------------------------------
\* IC message: dialect resolution
\* ------------------------------------------------------------------------

\* the pre-2.6 shape of MS (lines 428-436)
Shape15 ==
    <<"STR", "STR_OR_EMPTY", "STR", "STR", "STR_OR_EMPTY", "STR", "STR", "INT",
      "INT", "INT", "INT_OR_STR", "INT", "INT", "INT", "INT">>

\* the 2.6 shape: showname, charid_pair, offset_pair, nonint_pre
Shape19 == Shape15 \o <<"STR_OR_EMPTY", "INT", "STR", "INT">>

\* the 2.8 shape: charid_pair is a str, then sfx_looping, screenshake,
\* frames_shake, frames_realization, frames_sfx, additive, effect
Shape26 ==
    Shape15 \o <<"STR_OR_EMPTY", "STR", "STR", "INT">>
            \o <<"STR", "INT", "STR", "STR", "STR", "INT", "STR">>

Names15 ==
    <<"msg_type", "pre", "folder", "anim", "text", "pos", "sfx", "anim_type",
      "cid", "sfx_delay", "button", "evidence", "flip", "ding", "color">>

Names19 == Names15 \o <<"showname", "charid_pair", "offset_pair", "nonint_pre">>

Names26 ==
    Names19 \o <<"sfx_looping", "screenshake", "frames_shake",
                 "frames_realization", "frames_sfx", "additive", "effect">>

\* the locals net_cmd_ms sets before it looks at the arguments (lines 414-427)
MsDefaults ==
    [n \in {Names26[i] : i \in 1..Len(Names26)} \cup {"pair_order", "msg"} |->
        CASE n = "charid_pair" -> I(-1)
          [] n = "nonint_pre" -> I(0)
          [] n = "sfx_looping" -> S(<<"0">>)
          [] n = "screenshake" -> I(0)
          [] n = "additive" -> I(0)
          [] n = "pair_order" -> I(0)
          [] OTHER -> S(<<>>)]

\* a, b, c, ... = args
Unpack(names, args) ==
    [n \in DOMAIN MsDefaults |->
        IF \E i \in 1..Len(names) : names[i] = n
        THEN args[CHOOSE i \in 1..Len(names) : names[i] = n]
        ELSE MsDefaults[n]]

\* lines 469-472: charid_pair.split("^"), int() of the leading component,
\* pair_order from the second
unpack_pair(dialect, args, L0, pair_args, p) ==
    IF ~p.ok THEN [dialect |-> dialect, args |-> args, L |-> L0, exc |-> "ValueError"]
    ELSE [dialect |-> dialect, args |-> args,
          L |-> [L0 EXCEPT !.charid_pair = I(p.v),
                           !.pair_order = IF Len(pair_args) > 1
                                          THEN S(pair_args[2]) ELSE @],
          exc |-> "none"]

\* the body of the branch of the ladder that the shape of dialect fields took
resolved(dialect, args) ==
    IF dialect = 15
    THEN [dialect |-> 15, args |-> args, L |-> Unpack(Names15, args), exc |-> "none"]
    ELSE IF dialect = 19
    THEN [dialect |-> 19, args |-> args, L |-> Unpack(Names19, args), exc |-> "none"]
    ELSE IF dialect = 26
    THEN unpack_pair(26, args, Unpack(Names26, args),
                     Split(Unpack(Names26, args).charid_pair.v, <<"^">>),
                     ParseInt(Split(Unpack(Names26, args).charid_pair.v, <<"^">>)[1]))
    ELSE [dialect |-> 0, args |-> args, L |-> MsDefaults, exc |-> "none"]

\* a ladder without its second rung: the 2.6 shape is never tried
ms_resolve_skip(W, c, args) ==
    LET v15 == validate_net_cmd(W, c, args, Shape15, TRUE)
        v26 == validate_net_cmd(W, c, v15.args, Shape26, TRUE)
    IN IF v15.ok THEN resolved(15, v15.args)
       ELSE IF v26.ok THEN resolved(26, v26.args)
       ELSE resolved(0, v26.args)

\* the if/elif ladder of lines 428-474: the three shapes in their order, the
\* argument list coerced in place by each attempt.  dialect 0: no shape fits.
ms_resolve(W, c, args) ==
    LET v15 == validate_net_cmd(W, c, args, Shape15, TRUE)
        v19 == validate_net_cmd(W, c, v15.args, Shape19, TRUE)
        v26 == validate_net_cmd(W, c, v19.args, Shape26, TRUE)
    IN IF v15.ok THEN resolved(15, v15.args)
       ELSE IF v19.ok THEN resolved(19, v19.args)
       ELSE IF v26.ok THEN resolved(26, v26.args)
       ELSE resolved(0, v26.args)

\* ------------------------------------------------------------------------
\* IC message: the pipeline.  A stage takes and returns a context
\* [W, L, args, target_area, ret]: the world, the handler's locals, its
\* argument list, and the place where the handler returned ("" while it runs)
\* and passes on, untouched, the context of a handler that has returned
\* ------------------------------------------------------------------------

Return(X, label) == [X EXCEPT !.ret = label]

Notice(X, c, msg, label) == [X EXCEPT !.W = send_ooc(@, c, msg), !.ret = label]

\* lines 476-479
ms_additive(X, c) ==
    [X EXCEPT !.L.additive =
        IF EqInt(@, 1) /\ client_can_additive(X.W, c) THEN I(1) ELSE I(0)]

\* lines 481-486
ms_showname(X, c) ==
    IF X.ret # "" THEN X ELSE
    IF Len(X.L.showname.v) > 0 /\ ~X.W.area[AreaOf(X.W, c)].showname_changes_allowed
    THEN Notice(X, c, "Showname changes are forbidden in this area!", "showname")
    ELSE [X EXCEPT !.W.client[c].showname = X.L.showname.v]

\* lines 487-496
ms_iniswap(X, c) ==
    IF X.ret # "" THEN X ELSE
    IF is_iniswap(X.W, c, X.L.pre.v, X.L.anim.v, X.L.folder.v, X.L.sfx.v)
    THEN Notice(X, c, "Iniswap/custom emotes are blocked in this area", "iniswap")
    ELSE IF Len(X.W.client[c].charcurse) > 0 /\ X.L.folder.v # char_name(X.W, c)
    THEN Notice(X, c, "You may not iniswap while you are charcursed!", "charcurse")
    ELSE X

\* re.sub(r'[{}\\`|(~~)]', '', text).replace(' ', '')
Unmarked(text) ==
    SelectSeq(text, LAMBDA ch : ch \notin {"{", "}", "\\", "BQ", "|", "(", "~", ")", " "})

\* a handler without the checks of lines 497-507
ms_blankpost_off(X, c) == X

\* lines 497-507
ms_blankpost(X, c) ==
    IF X.ret # "" THEN X ELSE
    LET text == X.L.text.v
    IN IF X.W.area[AreaOf(X.W, c)].blankposting_allowed THEN X
       ELSE IF Strip(text) = <<>>
       THEN Notice(X, c, "Blankposting is forbidden in this area!", "blankpost")
       ELSE IF Len(Unmarked(text)) < 3 /\ ~StartsWith(text, <<"<">>)
               /\ ~StartsWith(text, <<">">>)
       THEN Notice(X, c, "While that is not a blankpost, it is still pretty spammy.",
                   "spammy")
       ELSE X

\* area_manager.get_area_by_id(aid) finds an area
AreaExists(aid) == aid \in Areas

\* the areas the client owns, in the order of area_manager.areas
RECURSIVE OwnedFrom(_, _, _)
OwnedFrom(W, c, aid) ==
    IF ~AreaExists(aid) THEN <<>>
    ELSE (IF c \in W.area[aid].owners THEN <<aid>> ELSE <<>>) \o OwnedFrom(W, c, aid + 1)

\* a testimony title as the room shows it, without its dashes
separator_bare(title) == title

\* lines 537 and 542: '~~-- ' + title + ' --'
separator(title) == <<"~", "~", "-", "-", " ">> \o title \o <<" ", "-", "-">>

\* lines 508-543: /a, /s, /testify, /examine
ms_command(X, c) ==
    IF X.ret # "" THEN X ELSE
    LET text == X.L.text.v
        part == Split(text, <<" ">>)
    IN IF StartsWith(text, <<"/", "a", " ">>)
       THEN LET aid == ParseInt(part[2])
            IN IF ~aid.ok
               THEN Notice(X, c, "That does not look like a valid area ID!", "/a")
               ELSE IF ~AreaExists(aid.v)
               THEN Notice(X, c, "Area not found.", "/a")
               ELSE IF c \notin X.W.area[aid.v].owners
               THEN Notice(X, c, "You don't own that area!", "/a")
               ELSE [X EXCEPT !.target_area = <<aid.v>>,
                              !.L.text = S(Join(Drop(part, 2), <<" ">>))]
       ELSE IF StartsWith(text, <<"/", "s", " ">>)
       THEN LET owned == OwnedFrom(X.W, c, 0)
            IN IF Len(owned) = 0
               THEN Notice(X, c, "You don't any areas!", "/s")
               ELSE [X EXCEPT !.target_area = owned,
                              !.L.text = S(Join(Drop(part, 1), <<" ">>))]
       ELSE IF StartsWith(text, <<"/", "t", "e", "s", "t", "i", "f", "y", " ">>)
       THEN LET title == Join(Drop(part, 1), <<" ">>)
                r == start_testimony(X.W, c, title)
            IN IF ~r.ok THEN [X EXCEPT !.W = r.W, !.ret = "/testify"]
               ELSE [X EXCEPT !.W = r.W,
                              !.L.text = S(separator(title)),
                              !.L.color = I(3)]
       ELSE IF StartsWith(text, <<"/", "e", "x", "a", "m", "i", "n", "e">>)
       THEN LET r == start_examination(X.W, c)
            IN IF ~r.ok THEN [X EXCEPT !.W = r.W, !.ret = "/examine"]
               ELSE [X EXCEPT !.W = r.W,
                              !.L.text = S(separator(r.W.area[AreaOf(X.W, c)].testimony.title)),
                              !.L.color = I(3)]
       ELSE X


\* lines 544-589: /end, /amend, /add, /remove and the cursor markers, while
\* the room records or examines a testimony
ms_testimony(X, c) ==
    IF X.ret # "" THEN X ELSE
    LET a == AreaOf(X.W, c)
        text == X.L.text.v
        part == Split(text, <<" ">>)
        \* lines 584-589, on the text the branches above left
        navigate(Y) ==
            LET t == Y.L.text.v
            IN IF Y.ret = "" /\ Y.W.area[a].is_examining /\ t # <<>>
                  /\ t[1] \in {">", "<", "="}
               THEN [Y EXCEPT !.W = navigate_testimony(Y.W, c, t[1], ParseInt(Tail(t))),
                              !.ret = "navigate"]
               ELSE Y
    IN IF ~(X.W.area[a].is_testifying \/ X.W.area[a].is_examining) THEN X
       ELSE IF StartsWith(text, <<"/", "e", "n", "d">>)
       THEN LET r == end_testimony(X.W, c)
            IN IF ~r.ok THEN [X EXCEPT !.W = r.W, !.ret = "/end"]
               ELSE navigate([X EXCEPT !.W = r.W, !.L.text = S(<<>>)])
       ELSE IF StartsWith(text, <<"/", "a", "m", "e", "n", "d", " ">>)
       THEN LET rest == Join(Drop(part, 2), <<" ">>)
                args == [X.args EXCEPT ![5] = S(rest)]
                index == ParseInt(part[2])
                r == amend_testimony(X.W, c, index.v, args)
            IN IF ~index.ok
               THEN Notice(X, c, "That does not look like a valid statement number!",
                           "/amend")
               ELSE IF ~r.ok THEN [X EXCEPT !.W = r.W, !.ret = "/amend"]
               ELSE IF r.W.area[a].is_testifying
               THEN [X EXCEPT !.W = r.W, !.ret = "/amend recorded"]
               ELSE navigate([X EXCEPT
                        !.W = IF r.W.area[a].is_examining
                              THEN [r.W EXCEPT !.area[a].examine_index = index.v]
                              ELSE r.W,
                        !.args = args, !.L.text = S(rest), !.L.color = I(1)])
       ELSE IF StartsWith(text, <<"/", "a", "d", "d", " ">>) /\ X.W.area[a].is_examining
       THEN LET rest == Join(Drop(part, 1), <<" ">>)
                args == [X.args EXCEPT ![5] = S(rest)]
                r == add_statement(X.W, a, args)
            IN navigate([X EXCEPT
                   !.W = [r.W EXCEPT !.area[a].examine_index =
                                         Len(r.W.area[a].testimony.statements) - 1],
                   !.args = args, !.L.text = S(rest), !.L.color = I(1)])
       ELSE IF StartsWith(text, <<"/", "r", "e", "m", "o", "v", "e", " ">>)
       THEN LET index == ParseInt(part[2])
                r == remove_statement(X.W, c, index.v)
            IN IF ~index.ok
               THEN Notice(X, c, "That does not look like a valid statement number!",
                           "/remove")
               ELSE IF ~r.ok THEN [X EXCEPT !.W = r.W, !.ret = "/remove"]
               ELSE navigate([X EXCEPT !.W = r.W, !.L.text = S(<<>>)])
       ELSE navigate(X)

MsgTypes == {<<"c", "h", "a", "t">>, <<"0">>, <<"1">>, <<"2">>, <<"3">>, <<"4">>, <<"5">>}

\* len(showname) > 15
ShownameCap == 15

\* lines 590-611 without the test of lines 596-597
ms_validate_anycid(X, c) ==
    IF X.ret # "" THEN X ELSE
    LET L == X.L
        anim_type == IF EqInt(L.anim_type, 4) THEN I(6) ELSE L.anim_type
        button == Str(L.button)
    IN IF L.msg_type.v \notin MsgTypes THEN Return(X, "msg_type")
       ELSE IF anim_type.v \notin {0, 1, 2, 5, 6} THEN Return(X, "anim_type")
       ELSE IF L.sfx_delay.v < 0 THEN Return(X, "sfx_delay")
       ELSE IF Contains(button, <<"4">>) /\ ~Contains(button, <<"<", "a", "n", "d", ">">>)
               /\ ~IsDigit(button)
       THEN Return(X, "button")
       ELSE IF L.evidence.v < 0 THEN Return(X, "evidence")
       ELSE IF L.ding.v \notin {0, 1} THEN Return(X, "ding")
       ELSE IF L.color.v \notin 0..8 THEN Return(X, "color")
       ELSE IF Len(L.showname.v) > ShownameCap
       THEN Notice(X, c, "Your IC showname is way too long!", "showname length")
       ELSE [X EXCEPT !.L.anim_type = anim_type]

\* lines 590-611; the legacy animation type 4 becomes 6 on the way
ms_validate(X, c) ==
    IF X.ret # "" THEN X ELSE
    LET L == X.L
        anim_type == IF EqInt(L.anim_type, 4) THEN I(6) ELSE L.anim_type
        button == Str(L.button)
    IN IF L.msg_type.v \notin MsgTypes THEN Return(X, "msg_type")
       ELSE IF anim_type.v \notin {0, 1, 2, 5, 6} THEN Return(X, "anim_type")
       ELSE IF L.cid.v # X.W.client[c].char_id THEN Return(X, "cid")
       ELSE IF L.sfx_delay.v < 0 THEN Return(X, "sfx_delay")
       ELSE IF Contains(button, <<"4">>) /\ ~Contains(button, <<"<", "a", "n", "d", ">">>)
               /\ ~IsDigit(button)
       THEN Return(X, "button")
       ELSE IF L.evidence.v < 0 THEN Return(X, "evidence")
       ELSE IF L.ding.v \notin {0, 1} THEN Return(X, "ding")
       ELSE IF L.color.v \notin 0..8 THEN Return(X, "color")
       ELSE IF Len(L.showname.v) > ShownameCap
       THEN Notice(X, c, "Your IC showname is way too long!", "showname length")
       ELSE [X EXCEPT !.L.anim_type = anim_type]

\* lines 612-617: button arrives as a str, so it equals none of the ints
ms_nonint(X, c) ==
    IF X.ret # "" THEN X ELSE
    LET L == X.L
    IN IF EqInt(L.nonint_pre, 1)
          /\ \E b \in {1, 2, 3, 4, 23} : EqInt(L.button, b)
       THEN IF L.anim_type.v \in {1, 2} THEN [X EXCEPT !.L.anim_type = I(0)]
            ELSE IF L.anim_type.v = 6 THEN [X EXCEPT !.L.anim_type = I(5)]
            ELSE X
       ELSE X

\* the message as it was, the rule of lines 618-624 left out
ms_nonint_only_off(X, c) == X

\* lines 618-624
ms_nonint_only(X, c) ==
    IF X.ret # "" THEN X ELSE
    IF ~X.W.area[AreaOf(X.W, c)].non_int_pres_only THEN X
    ELSE IF X.L.anim_type.v \in {1, 2}
    THEN [X EXCEPT !.L.anim_type = I(0), !.L.nonint_pre = I(1)]
    ELSE IF X.L.anim_type.v = 6
    THEN [X EXCEPT !.L.anim_type = I(5), !.L.nonint_pre = I(1)]
    ELSE X

\* the message as it was, the rule of lines 625-634 left out
ms_shouts_off(X, c) == X

\* lines 625-634
ms_shouts(X, c) ==
    IF X.ret # "" THEN X ELSE
    IF X.W.area[AreaOf(X.W, c)].shouts_allowed THEN X
    ELSE [X EXCEPT !.L.anim_type = IF @.v = 2 THEN I(1)
                                   ELSE IF @.v = 6 THEN I(5) ELSE @,
                   !.L.button = I(0),
                   !.L.ding = I(0)]

\* server.config['max_chars']
ConfigMaxChars == 12

\* server.zalgo_tolerance
ZalgoTolerance == 3

\* [:256]
TruncLen == 256

\* "COMB" stands for every character of the scrubbed Unicode blocks
RunLen(s) ==
    IF \A i \in 1..Len(s) : s[i] = "COMB" THEN Len(s)
    ELSE (CHOOSE i \in 1..Len(s) : s[i] # "COMB" /\ \A k \in 1..(i - 1) : s[k] = "COMB") - 1

\* dezalgo(input): runs of at least zalgo_tolerance combining characters go
RECURSIVE dezalgo(_)
dezalgo(input) ==
    IF Len(input) = 0 THEN <<>>
    ELSE IF input[1] # "COMB" THEN <<input[1]>> \o dezalgo(Tail(input))
    ELSE LET n == RunLen(input)
         IN (IF n >= ZalgoTolerance THEN <<>> ELSE Take(input, n))
            \o dezalgo(Drop(input, n))

RECURSIVE Reverse(_)
Reverse(s) == IF Len(s) = 0 THEN <<>> ELSE Reverse(Tail(s)) \o <<s[1]>>

\* client.shake_message(msg): the words in another order
shake_message(msg) ==
    Join(Reverse(SelectSeq(Split(msg, <<" ">>), LAMBDA w : w # <<>>)), <<" ">>)

\* client.disemvowel_message(msg)
disemvowel_message(msg) ==
    SelectSeq(msg, LAMBDA ch : ch \notin {"a", "e", "i", "o", "u", "A", "E", "I", "O", "U"})

\* lines 636-650
ms_transform(X, c) ==
    IF X.ret # "" THEN X ELSE
    LET text == X.L.text.v
        m0 == Take(dezalgo(text), TruncLen)
        m1 == IF X.W.client[c].shaken THEN shake_message(m0) ELSE m0
        m2 == IF X.W.client[c].disemvowel THEN disemvowel_message(m1) ELSE m1
    IN IF Len(text) > ConfigMaxChars THEN Return(X, "max_chars")
       ELSE [X EXCEPT !.L.msg = S(m2)]

\* a handler without the guard of lines 652-656
ms_repeat_off(X, c) == X

\* a guard that does not look at the character of the last message
ms_repeat_anycid(X, c) ==
    IF X.ret # "" THEN X ELSE
    LET last == X.W.area[AreaOf(X.W, c)].last_ic_message
        msg == X.L.msg.v
    IN IF Strip(msg) # <<>> /\ last # <<>> /\ RStrip(msg) = RStrip(last[5].v)
       THEN Notice(X, c, "Your message is a repeat of the last one. Don't spam!", "repeat")
       ELSE X

\* lines 652-656
ms_repeat(X, c) ==
    IF X.ret # "" THEN X ELSE
    LET last == X.W.area[AreaOf(X.W, c)].last_ic_message
        msg == X.L.msg.v
    IN IF Strip(msg) # <<>> /\ last # <<>> /\ X.L.cid.v = last[9].v
          /\ RStrip(msg) = RStrip(last[5].v)
       THEN Notice(X, c, "Your message is a repeat of the last one. Don't spam!", "repeat")
       ELSE X


\* seq[i] for a Python list seq and int i: [ok |-> FALSE] is IndexError, a
\* negative i counts from the end; k is the position in the sequence
PyIndex(seq, i) ==
    LET k == IF i < 0 THEN Len(seq) + i + 1 ELSE i + 1
    IN [ok |-> k >= 1 /\ k <= Len(seq), k |-> k]

\* lines 658-663 without the test of line 661 that the piece is hidden
ms_evidence_always(X, c) ==
    IF X.ret # "" THEN X ELSE
    LET a == AreaOf(X.W, c)
        evidence == X.L.evidence.v
        evi_list == X.W.client[c].evi_list
        e == PyIndex(evi_list, evidence)
        g == PyIndex(X.W.area[a].evidences, evi_list[e.k] - 1)
    IN IF ~\E i \in 1..Len(evi_list) : evi_list[i] = evidence
       THEN [X EXCEPT !.L.evidence = I(0)]
       ELSE IF evidence = 0 THEN X
       ELSE IF ~e.ok \/ ~g.ok THEN [X EXCEPT !.W = Raise(@, "IndexError"), !.ret = "raise"]
       ELSE [X EXCEPT !.W = broadcast_evidence_list(
                                [@ EXCEPT !.area[a].evidences[g.k].pos = <<"a", "l", "l">>], a)]

\* lines 658-663: "in" tests the values of client.evi_list, the subscript
\* that follows uses the same number as a position
ms_evidence(X, c) ==
    IF X.ret # "" THEN X ELSE
    LET a == AreaOf(X.W, c)
        evidence == X.L.evidence.v
        evi_list == X.W.client[c].evi_list
        e == PyIndex(evi_list, evidence)
        g == PyIndex(X.W.area[a].evidences, evi_list[e.k] - 1)
    IN IF ~\E i \in 1..Len(evi_list) : evi_list[i] = evidence
       THEN [X EXCEPT !.L.evidence = I(0)]
       ELSE IF evidence = 0 THEN X
       ELSE IF ~e.ok \/ ~g.ok THEN [X EXCEPT !.W = Raise(@, "IndexError"), !.ret = "raise"]
       ELSE IF X.W.area[a].evidences[g.k].pos # <<"a", "l", "l">>
       THEN [X EXCEPT !.W = broadcast_evidence_list(
                                [@ EXCEPT !.area[a].evidences[g.k].pos = <<"a", "l", "l">>], a)]
       ELSE X

\* the condition of line 684 without its test that the target is another client
PairMatch_self(W, c, target) ==
    /\ W.client[target].char_id = W.client[c].charid_pair
    /\ W.client[target].charid_pair = W.client[c].char_id
    /\ W.client[target].pos = W.client[c].pos

\* the condition of line 684 without its test of the target's own pairing field
PairMatch_oneway(W, c, target) ==
    /\ W.client[target].char_id = W.client[c].charid_pair
    /\ target # c
    /\ W.client[target].pos = W.client[c].pos

\* the condition of line 684 for one client of the room
PairMatch(W, c, target) ==
    /\ W.client[target].char_id = W.client[c].charid_pair
    /\ W.client[target].charid_pair = W.client[c].char_id
    /\ target # c
    /\ W.client[target].pos = W.client[c].pos

\* a pairing that takes nothing from the partner
pair_other_default(W, target) ==
    [offset |-> S(<<"0">>), emote |-> S(<<>>), flip |-> I(0), folder |-> S(<<>>)]

\* lines 686-689: the partner's offset, last sprite, flip and folder
pair_other(W, target) ==
    [offset |-> S(W.client[target].offset_pair),
     emote |-> S(W.client[target].last_sprite),
     flip |-> I(W.client[target].flip),
     folder |-> S(W.client[target].claimed_folder)]

\* lines 670-695: the sender's pairing fields are stored, then the room is
\* scanned for the partner; pair_order is 0 unless the 2.8 shape carried one,
\* and 0 != "" holds, so a confirmed pair always gets its "^" suffix
ms_pairing(X, c) ==
    IF X.ret # "" THEN X ELSE
    LET L == X.L
        a == AreaOf(X.W, c)
        W1 == [X.W EXCEPT !.client[c].charid_pair = L.charid_pair.v,
                          !.client[c].offset_pair = L.offset_pair.v,
                          !.client[c].last_sprite =
                              IF L.anim_type.v \notin {5, 6} THEN L.anim.v ELSE @,
                          !.client[c].flip = L.flip.v,
                          !.client[c].claimed_folder = L.folder.v]
        targets == {t \in W1.area[a].clients : PairMatch(W1, c, t)}
        confirmed == L.charid_pair.v > -1 /\ targets # {}
        target == CHOOSE t \in targets : TRUE
        order == L.pair_order
    IN IF confirmed
       THEN [X EXCEPT !.W = W1,
                      !.other = pair_other(W1, target),
                      !.L.charid_pair =
                          IF ~(order.t = "str" /\ order.v = <<>>)
                          THEN S(IntStr(L.charid_pair.v) \o <<"^">> \o Str(order))
                          ELSE @]
       ELSE [X EXCEPT !.W = W1, !.L.charid_pair = I(-1)]

\* the tuple of lines 700-708; g is client.evi_list[evidence]
SendArgs(X, g) ==
    LET L == X.L
    IN <<L.msg_type, L.pre, L.folder, L.anim, L.msg, L.pos, L.sfx, L.anim_type,
         L.cid, L.sfx_delay, L.button, I(g), L.flip, L.ding, L.color, L.showname,
         L.charid_pair, X.other.folder, X.other.emote, L.offset_pair,
         X.other.offset, X.other.flip, L.nonint_pre, L.sfx_looping, L.screenshake,
         L.frames_shake, L.frames_realization, L.frames_sfx, L.additive, L.effect>>

\* area_manager.send_remote_command(area_ids, cmd, *args)
send_remote_command(W, area_ids, cmd, args) ==
    IF Len(area_ids) = 0 THEN W
    ELSE Emit(W, [ev |-> "remote", to |-> area_ids, cmd |-> cmd, args |-> args])

\* lines 697-729
ms_broadcast(X, c) ==
    IF X.ret # "" THEN X ELSE
    LET a == AreaOf(X.W, c)
        W0 == IF c \in X.W.area[a].afkers THEN toggle_afk(X.W, c) ELSE X.W
        e == PyIndex(W0.client[c].evi_list, X.L.evidence.v)
        send_args == SendArgs(X, W0.client[c].evi_list[e.k])
        owner_args == [send_args EXCEPT ![5] =
                          S(<<"[">> \o W0.area[a].abbreviation \o <<"]">> \o X.L.msg.v)]
        W1 == [W0 EXCEPT !.area[a].last_ic_message = send_args]
        W2 == area_send_command(W1, a, "MS", send_args)
        W3 == send_remote_command(W2, X.target_area, "MS", send_args)
        W4 == area_send_owner_command(W3, a, "MS", owner_args)
        W5 == set_next_msg_delay(W4, a, Len(X.L.msg.v))
        W6 == IF W5.area[a].is_recording
              THEN [W5 EXCEPT !.area[a].recorded_messages = Append(@, X.args)]
              ELSE W5
        r == add_statement(W6, a, send_args)
        W7 == IF ~W6.area[a].is_testifying THEN W6
              ELSE IF r.ok THEN r.W
              ELSE send_ooc(W6, c, "That statement was not recorded because you reached the statement limit.")
    IN IF ~e.ok THEN [X EXCEPT !.W = Raise(W0, "IndexError"), !.ret = "raise"]
       ELSE [X EXCEPT !.W = W7, !.ret = "sent"]

\* net_cmd_ms from the dialect ladder on
ms_pipeline(W, c, r) ==
    LET X0 == [W |-> W, L |-> r.L, args |-> r.args, target_area |-> <<>>,
               other |-> [offset |-> S(<<"0">>), emote |-> S(<<>>), flip |-> I(0),
                          folder |-> S(<<>>)],
               ret |-> ""]
        X1 == ms_iniswap(ms_showname(ms_additive(X0, c), c), c)
        X2 == ms_testimony(ms_command(ms_blankpost(X1, c), c), c)
        X3 == ms_shouts(ms_nonint_only(ms_nonint(ms_validate(X2, c), c), c), c)
        X4 == ms_evidence(ms_repeat(ms_transform(X3, c), c), c)
        X5 == ms_broadcast(ms_pairing(X4, c), c)
    IN [X5.W EXCEPT !.ret = X5.ret]

\* net_cmd_ms
net_cmd_ms(W, c, args) ==
    IF ~W.client[c].is_checked THEN [W EXCEPT !.ret = "unchecked"]
    ELSE IF W.client[c].is_muted
    THEN [send_ooc(W, c, "You are muted by a moderator.") EXCEPT !.ret = "muted"]
    ELSE IF ~can_send_message(W, c) THEN [W EXCEPT !.ret = "cannot send"]
    ELSE LET r == ms_resolve(W, c, args)
         IN IF r.dialect = 0 THEN [W EXCEPT !.ret = "shape"]
            ELSE IF r.exc # "none"
            THEN [Raise(W, r.exc) EXCEPT !.ret = "raise", !.dialect = r.dialect]
            ELSE [ms_pipeline(W, c, r) EXCEPT !.dialect = r.dialect]


\* ------------------------------------------------------------------------
\* OOC message and the command registry (server/commands, not part of src/)
\* ------------------------------------------------------------------------

\* str.lower(), on the ASCII letters ('A' is Ascii[34], 'a' is Ascii[66])
Lower(s) ==
    [i \in 1..Len(s) |->
        IF \E k \in 34..59 : Ascii[k] = s[i]
        THEN Ascii[(CHOOSE k \in 34..59 : Ascii[k] = s[i]) + 32]
        ELSE s[i]]

\* the ids of the areas that bear the name
AreaNamed(name) == {a \in Areas : <<"A", Digits[a + 1]>> = name}

\* client.change_area(area): ClientError for the area the client is in
change_area(W, c, a) ==
    IF a = AreaOf(W, c) THEN Raise(W, "ClientError")
    ELSE [W EXCEPT !.area[AreaOf(W, c)].clients = @ \ {c},
                   !.area[a].clients = @ \cup {c},
                   !.client[c].area = a]

\* commands.ooc_cmd_area(client, arg): AreaError when no area bears the name
ooc_cmd_area(W, c, arg) ==
    IF AreaNamed(arg) = {} THEN Raise(W, "AreaError")
    ELSE change_area(W, c, CHOOSE a \in AreaNamed(arg) : TRUE)

\* the names n for which commands has a function ooc_cmd_n
Commands == {<<"a", "r", "e", "a">>, <<"p", "o", "s">>, <<"k", "i", "c", "k">>, <<"b", "a", "n">>}

\* getattr(commands, called_function)(client, arg): a moderator command is a
\* ClientError for a client that is no moderator, and a ValueError when its
\* argument is no number
ooc_cmd(W, c, cmd, arg) ==
    IF cmd = <<"a", "r", "e", "a">> THEN ooc_cmd_area(W, c, arg)
    ELSE IF cmd = <<"p", "o", "s">>
    THEN IF arg = <<>> THEN Raise(W, "ArgumentError")
         ELSE [W EXCEPT !.client[c].pos = arg]
    ELSE IF ~W.client[c].is_mod THEN Raise(W, "ClientError")
    ELSE IF ~ParseInt(arg).ok THEN Raise(W, "ValueError")
    ELSE Emit(W, [ev |-> "call", to |-> c, cmd |-> "ooc_cmd", args |-> <<cmd, arg>>])

\* client.is_valid_name(name): no other client of the room bears the name
is_valid_name(W, c, name) ==
    \A o \in W.area[AreaOf(W, c)].clients \ {c} : W.client[o].name # name

\* server.config['hostname']
Hostname == <<"<", "d", "o", "l", "l", "a", "r", ">", "H">>

\* len(self.client.name) > 30
NameCap == 30

\* lines 745-750
ct_name(W, c, name) ==
    IF W.client[c].name # name /\ W.client[c].fake_name # name
    THEN IF is_valid_name(W, c, name)
         THEN [W EXCEPT !.client[c].name = name, !.client[c].fake_name = name]
         ELSE [W EXCEPT !.client[c].fake_name = name]
    ELSE W

\* the call of line 790 without the except clauses of lines 791-797
ct_called_uncaught(W, W1, c) == W1

\* what the try statement of lines 786-797 makes of the call's outcome W1
ct_called(W, W1, c) ==
    IF W1.exc \in {"ClientError", "AreaError", "ArgumentError", "ServerError"}
    THEN send_ooc(W, c, "ex")
    ELSE IF W1.exc # "none"
    THEN send_ooc(W, c, "An internal error occurred. Please check the server log.")
    ELSE W1

\* lines 780-797: the command token, and one argument of at most 256 characters
ct_command(W, c, spl) ==
    IF Lower(spl[1]) \notin Commands THEN send_ooc(W, c, "Invalid command.")
    ELSE ct_called(W, ooc_cmd(W, c, Lower(spl[1]),
                              IF Len(spl) = 2 THEN Take(spl[2], TruncLen) ELSE <<>>), c)

\* lines 798-810
ct_chat(W, c, text) ==
    LET a == AreaOf(W, c)
        m0 == dezalgo(text)
        m1 == IF W.client[c].shaken THEN shake_message(m0) ELSE m0
        m2 == IF W.client[c].disemvowel THEN disemvowel_message(m1) ELSE m1
    IN area_send_owner_command(
           area_send_command(W, a, "CT", <<S(W.client[c].name), S(m2)>>),
           a, "CT",
           <<S(<<"[">> \o W.area[a].abbreviation \o <<"]">> \o W.client[c].name), S(m2)>>)

\* lines 751-810; "CF" stands for every character of category Cf
ct_checked(W, c, text) ==
    LET name == W.client[c].name
    IN IF name = <<>>
       THEN send_ooc(W, c, "You must insert a name with at least one letter")
       ELSE IF Len(name) > NameCap
       THEN send_ooc(W, c, "Your OOC name is too long! Limit it to 30 characters.")
       ELSE IF \E i \in 1..Len(name) : name[i] = "CF"
       THEN send_ooc(W, c, "You cannot use format characters in your name!")
       ELSE IF \/ StartsWith(name, Hostname)
               \/ StartsWith(name, <<"<", "d", "o", "l", "l", "a", "r", ">", "G">>)
               \/ StartsWith(name, <<"<", "d", "o", "l", "l", "a", "r", ">", "M">>)
       THEN send_ooc(W, c, "That name is reserved!")
       ELSE IF Len(text) > ConfigMaxChars THEN W
       ELSE IF StartsWith(text, <<" ", "/">>)
       THEN send_ooc(W, c, "Your message was not sent for safety reasons: you left a space before that slash.")
       ELSE IF StartsWith(text, <<"/">>) THEN ct_command(W, c, SplitOnce(Tail(text), <<" ">>))
       ELSE ct_chat(W, c, text)

\* a handler that does not ask whether the handshake is complete
net_cmd_ct_open(W, c, args) ==
    IF W.client[c].is_ooc_muted THEN send_ooc(W, c, "You are muted by a moderator.")
    ELSE IF ~validate_net_cmd(W, c, args, <<"STR", "STR">>, FALSE).ok THEN W
    ELSE ct_checked(ct_name(W, c, args[1].v), c, args[2].v)

\* net_cmd_ct
net_cmd_ct(W, c, args) ==
    IF ~W.client[c].is_checked THEN W
    ELSE IF W.client[c].is_ooc_muted THEN send_ooc(W, c, "You are muted by a moderator.")
    ELSE IF ~validate_net_cmd(W, c, args, <<"STR", "STR">>, FALSE).ok THEN W
    ELSE ct_checked(ct_name(W, c, args[1].v), c, args[2].v)

\* ------------------------------------------------------------------------
\* Music, judge signs, case announcements, penalty bars, evidence, mod calls
\* ------------------------------------------------------------------------

\* area.cannot_ic_interact(client): a locked room admits its invited clients
cannot_ic_interact(W, c) ==
    W.area[AreaOf(W, c)].is_locked /\ c \notin W.area[AreaOf(W, c)].invite_list

\* the songs and the category headers of server.music_list
MusicList == {<<"s", ".", "m", "p", "3">>}

MusicCategories == {<<"=", "=", "C", "=", "=">>}

\* the four shapes of lines 838-842, tried in their order on the same list
mc_validate(W, c, args) ==
    LET v2 == validate_net_cmd(W, c, args, <<"STR", "INT">>, TRUE)
        v3 == validate_net_cmd(W, c, v2.args, <<"STR", "INT", "STR_OR_EMPTY">>, TRUE)
        v4 == validate_net_cmd(W, c, v3.args,
                               <<"STR", "INT", "STR_OR_EMPTY", "INT">>, TRUE)
        v5 == validate_net_cmd(W, c, v4.args,
                               <<"STR", "INT", "STR_OR_EMPTY", "INT", "INT">>, TRUE)
    IN IF v2.ok THEN v2 ELSE IF v3.ok THEN v3 ELSE IF v4.ok THEN v4 ELSE v5

\* lines 852-891, for validated arguments
mc_play(W, c, args) ==
    LET a == AreaOf(W, c)
        stop == args[1].v = <<"~", "s", "t", "o", "p", ".", "m", "p", "3">> \/ args[1].v \in MusicCategories
        name == IF stop THEN <<"~", "s", "t", "o", "p", ".", "m", "p", "3">> ELSE args[1].v
        showname == IF Len(args) > 2 THEN args[3].v ELSE <<>>
        effects == IF Len(args) > 3 THEN args[4].v ELSE 0
    IN IF ~stop /\ args[1].v \notin MusicList
       THEN send_ooc(W, c, "Error: song isn't recognized by server!")
       ELSE IF Len(showname) > 0 /\ ~W.area[a].showname_changes_allowed
       THEN send_ooc(W, c, "Showname changes are forbidden in this area!")
       ELSE IF W.area[a].jukebox
       THEN [W EXCEPT !.area[a].jukebox_votes = Append(@, <<c, name>>)]
       ELSE area_send_command([W EXCEPT !.area[a].current_music = name],
                              a, "MC", <<S(name), I(W.client[c].char_id), S(showname),
                                         I(effects)>>)

\* client.send_ooc(f'...{n}...'): a private notice, the text and the number
\* formatted into it
send_ooc_f(W, c, msg, n) ==
    Emit(W, [ev |-> "send", to |-> c, cmd |-> "CT", args |-> <<msg, n>>])

\* a handler that never consults the cooldown
mc_music_hot(W, c, args) ==
    LET v == mc_validate(W, c, args)
    IN IF W.client[c].is_muted THEN send_ooc(W, c, "You are muted by a moderator.")
       ELSE IF ~W.client[c].is_dj THEN send_ooc(W, c, "You were blockdj'd by a moderator.")
       ELSE IF cannot_ic_interact(W, c)
       THEN send_ooc(W, c, "You are not on the area's invite list, and thus, you cannot change music!")
       ELSE IF ~v.ok THEN W
       ELSE IF v.args[2].v # W.client[c].char_id THEN W
       ELSE mc_play(W, c, v.args)

\* lines 824-851: the handler of the AreaError.  client.change_music_cd() is
\* the seconds left of the client's cooldown, 0 when it may change the music
mc_music(W, c, args) ==
    LET v == mc_validate(W, c, args)
    IN IF W.client[c].is_muted THEN send_ooc(W, c, "You are muted by a moderator.")
       ELSE IF ~W.client[c].is_dj THEN send_ooc(W, c, "You were blockdj'd by a moderator.")
       ELSE IF cannot_ic_interact(W, c)
       THEN send_ooc(W, c, "You are not on the area's invite list, and thus, you cannot change music!")
       ELSE IF ~v.ok THEN W
       ELSE IF v.args[2].v # W.client[c].char_id THEN W
       ELSE IF W.client[c].music_cd # 0 /\ Cardinality(W.area[AreaOf(W, c)].clients) # 1
       THEN send_ooc_f(W, c, "You changed the song too many times. Please try again after {} seconds.",
                       W.client[c].music_cd)
       ELSE mc_play(W, c, v.args)

\* lines 820-891 on the outcome W1 of ooc_cmd_area
mc_called(W, W1, c, args) ==
    IF W1.exc = "AreaError" THEN mc_music(W, c, args)
    ELSE IF W1.exc = "ClientError" THEN send_ooc(W, c, "ex")
    ELSE W1

\* net_cmd_mc: args[0] is read without a length check
net_cmd_mc(W, c, args) ==
    IF ~W.client[c].is_checked THEN W
    ELSE IF Len(args) = 0 THEN Raise(W, "IndexError")
    ELSE mc_called(W, ooc_cmd_area(W, c, args[1].v), c, args)

\* area.add_to_judgelog(client, msg)
add_to_judgelog(W, c, msg) ==
    [W EXCEPT !.area[AreaOf(W, c)].judgelog = Append(@, <<c, msg>>)]

\* net_cmd_rt
net_cmd_rt(W, c, args) ==
    LET a == AreaOf(W, c)
        v1 == validate_net_cmd(W, c, args, <<"STR">>, TRUE)
        v2 == validate_net_cmd(W, c, v1.args, <<"STR", "INT">>, TRUE)
        v == IF v1.ok THEN v1 ELSE v2
    IN IF ~W.client[c].is_checked THEN W
       ELSE IF ~W.area[a].shouts_allowed
       THEN send_ooc(W, c, "You cannot use the testimony buttons here!")
       ELSE IF W.client[c].is_muted THEN send_ooc(W, c, "You are muted by a moderator.")
       ELSE IF ~W.client[c].can_wtce
       THEN send_ooc(W, c, "You were blocked from using judge signs by a moderator.")
       ELSE IF cannot_ic_interact(W, c)
       THEN send_ooc(W, c, "You are not on the area's invite list, and thus, you cannot use the WTCE buttons!")
       ELSE IF ~v.ok THEN W
       ELSE IF v.args[1].v \notin {<<"t", "e", "s", "t", "i", "m", "o", "n", "y", "1">>, <<"t", "e", "s", "t", "i", "m", "o", "n", "y", "2">>, <<"j", "u", "d", "g", "e", "r", "u", "l", "i", "n", "g">>} THEN W
       ELSE IF W.client[c].wtce_cd
       THEN send_ooc(W, c, "You used witness testimony/cross examination signs too many times.")
       ELSE add_to_judgelog(area_send_command(W, a, "RT", v.args), c, "used sign")

\* server.send_all_cmd_pred(cmd, *args, pred)
send_all_cmd_pred(W, cmd, args) ==
    Emit(W, [ev |-> "all", to |-> 0, cmd |-> cmd, args |-> args])

\* the condition of lines 973-974, evaluated left to right from args[i]:
\* "raise" is the IndexError of a missing field, "none" that no field is "1"
RECURSIVE casea_wanted(_, _)
casea_wanted(args, i) ==
    IF i > 5 THEN "none"
    ELSE IF i >= Len(args) THEN "raise"
    ELSE IF args[i + 1].v = <<"1">> THEN "some"
    ELSE casea_wanted(args, i + 1)

\* net_cmd_casea
net_cmd_casea(W, c, args) ==
    IF ~W.client[c].is_checked THEN W
    ELSE IF c \notin W.area[AreaOf(W, c)].owners
    THEN send_ooc(W, c, "You cannot announce a case in an area where you are not a CM!")
    ELSE IF W.client[c].case_cd
    THEN send_ooc(W, c, "Please wait 60 seconds between case announcements!")
    ELSE IF casea_wanted(args, 1) = "raise" THEN Raise(W, "IndexError")
    ELSE IF casea_wanted(args, 1) = "none"
    THEN send_ooc(W, c, "You should probably announce the case to at least one person.")
    ELSE IF Len(args) < 6 THEN Raise(W, "IndexError")
    ELSE [send_all_cmd_pred(W, "CASEA", SubSeq(args, 1, 6)) EXCEPT !.client[c].case_cd = TRUE]

\* the values a penalty bar takes
MaxHp == 10

\* area.change_hp(side, val): AreaError for another side or value
change_hp(W, a, side, val) ==
    IF side \notin {1, 2} \/ val < 0 \/ val > MaxHp THEN Raise(W, "AreaError")
    ELSE area_send_command([W EXCEPT !.area[a].hp[side] = val], a, "HP", <<I(side), I(val)>>)

\* net_cmd_hp
net_cmd_hp(W, c, args) ==
    LET v == validate_net_cmd(W, c, args, <<"INT", "INT">>, TRUE)
        W1 == change_hp(W, AreaOf(W, c), v.args[1].v, v.args[2].v)
    IN IF ~W.client[c].is_checked THEN W
       ELSE IF W.client[c].is_muted THEN send_ooc(W, c, "You are muted by a moderator.")
       ELSE IF cannot_ic_interact(W, c)
       THEN send_ooc(W, c, "You are not on the area's invite list, and thus, you cannot change the Confidence bars!")
       ELSE IF ~v.ok THEN W
       ELSE IF W1.exc = "AreaError" THEN W
       ELSE add_to_judgelog(W1, c, "changed the penalties")

\* net_cmd_pe: validate_net_cmd is called with its default needs_auth
net_cmd_pe(W, c, args) ==
    LET a == AreaOf(W, c)
        v == validate_net_cmd(W, c, args,
                              <<"STR_OR_EMPTY", "STR_OR_EMPTY", "STR_OR_EMPTY">>, TRUE)
    IN IF ~W.client[c].is_checked THEN W
       ELSE IF ~v.ok THEN W
       ELSE broadcast_evidence_list(
                [W EXCEPT !.area[a].evidences =
                    Append(@, [name |-> args[1].v, desc |-> args[2].v,
                               image |-> args[3].v, pos |-> <<"a", "l", "l">>])], a)

\* net_cmd_de: client.evi_list[int(args[0])] may be an IndexError
net_cmd_de(W, c, args) ==
    LET a == AreaOf(W, c)
        v == validate_net_cmd(W, c, args, <<"INT">>, TRUE)
        e == PyIndex(W.client[c].evi_list, v.args[1].v)
        g == PyIndex(W.area[a].evidences, W.client[c].evi_list[e.k])
        ev == W.area[a].evidences
    IN IF ~W.client[c].is_checked THEN W
       ELSE IF ~v.ok THEN W
       ELSE IF ~e.ok THEN Raise(W, "IndexError")
       ELSE IF ~g.ok THEN broadcast_evidence_list(W, a)
       ELSE broadcast_evidence_list(
                [W EXCEPT !.area[a].evidences =
                    SubSeq(ev, 1, g.k - 1) \o SubSeq(ev, g.k + 1, Len(ev))], a)

\* net_cmd_ee
net_cmd_ee(W, c, args) ==
    LET a == AreaOf(W, c)
        v == validate_net_cmd(W, c, args,
                 <<"INT", "STR_OR_EMPTY", "STR_OR_EMPTY", "STR_OR_EMPTY">>, TRUE)
        e == PyIndex(W.client[c].evi_list, v.args[1].v)
        g == PyIndex(W.area[a].evidences, W.client[c].evi_list[e.k])
    IN IF ~W.client[c].is_checked THEN W
       ELSE IF ~v.ok THEN W
       ELSE IF ~e.ok THEN Raise(W, "IndexError")
       ELSE IF ~g.ok THEN broadcast_evidence_list(W, a)
       ELSE broadcast_evidence_list(
                [W EXCEPT !.area[a].evidences[g.k] =
                    [name |-> args[2].v, desc |-> args[3].v, image |-> args[4].v,
                     pos |-> <<"a", "l", "l">>]], a)

\* args[0][:100]
ReasonLen == 100

\* net_cmd_zz
net_cmd_zz(W, c, args) ==
    IF ~W.client[c].is_checked THEN W
    ELSE IF W.client[c].is_muted THEN send_ooc(W, c, "You are muted by a moderator.")
    ELSE IF W.client[c].char_id = -1
    THEN send_ooc(W, c, "You cannot call a moderator while spectating.")
    ELSE IF W.client[c].mod_cd
    THEN send_ooc(W, c, "You must wait 30 seconds between mod calls.")
    ELSE [send_all_cmd_pred(W, "ZZ",
              IF Len(args) < 1 THEN <<I(c)>>
              ELSE <<I(c), S(Take(dezalgo(args[1].v), ReasonLen))>>)
          EXCEPT !.client[c].mod_cd = TRUE]

\* net_cmd_opKICK
net_cmd_opKICK(W, c, args) ==
    IF Len(args) = 0 THEN Raise(W, "IndexError")
    ELSE net_cmd_ct(W, c, <<S(<<"o", "p", "k", "i", "c", "k">>), S(<<"/", "k", "i", "c", "k", " ">> \o args[1].v)>>)

\* net_cmd_opBAN
net_cmd_opBAN(W, c, args) ==
    IF Len(args) = 0 THEN Raise(W, "IndexError")
    ELSE net_cmd_ct(W, c, <<S(<<"o", "p", "b", "a", "n">>), S(<<"/", "b", "a", "n", " ">> \o args[1].v)>>)

\* net_cmd_setcase: args[0..6] are read without a length check
net_cmd_setcase(W, c, args) ==
    IF Len(args) < 7 THEN Raise(W, "IndexError")
    ELSE [W EXCEPT !.client[c].casing =
             <<args[1].v>> \o [i \in 1..6 |-> args[i + 1].v = <<"1">>]]


\* ------------------------------------------------------------------------
\* Dispatch and data_received
\* ------------------------------------------------------------------------

\* net_cmd_dispatcher (lines 1143-1170)
Dispatcher ==
    <<[name |-> <<"H", "I">>, h |-> "HI"],
      [name |-> <<"I", "D">>, h |-> "ID"],
      [name |-> <<"C", "H">>, h |-> "CH"],
      [name |-> <<"a", "s", "k", "c", "h", "a", "a">>, h |-> "askchaa"],
      [name |-> <<"a", "s", "k", "c", "h", "a", "r", "2">>, h |-> "askchar2"],
      [name |-> <<"A", "N">>, h |-> "AN"],
      [name |-> <<"A", "E">>, h |-> "AE"],
      [name |-> <<"A", "M">>, h |-> "AM"],
      [name |-> <<"R", "C">>, h |-> "RC"],
      [name |-> <<"R", "M">>, h |-> "RM"],
      [name |-> <<"R", "D">>, h |-> "RD"],
      [name |-> <<"C", "C">>, h |-> "CC"],
      [name |-> <<"M", "S">>, h |-> "MS"],
      [name |-> <<"C", "T">>, h |-> "CT"],
      [name |-> <<"M", "C">>, h |-> "MC"],
      [name |-> <<"R", "T">>, h |-> "RT"],
      [name |-> <<"S", "E", "T", "C", "A", "S", "E">>, h |-> "SETCASE"],
      [name |-> <<"C", "A", "S", "E", "A">>, h |-> "CASEA"],
      [name |-> <<"H", "P">>, h |-> "HP"],
      [name |-> <<"P", "E">>, h |-> "PE"],
      [name |-> <<"D", "E">>, h |-> "DE"],
      [name |-> <<"E", "E">>, h |-> "EE"],
      [name |-> <<"Z", "Z">>, h |-> "ZZ"],
      [name |-> <<"o", "p", "K", "I", "C", "K">>, h |-> "opKICK"],
      [name |-> <<"o", "p", "B", "A", "N">>, h |-> "opBAN"]>>

\* cmd in net_cmd_dispatcher
Known(cmd) == \E i \in 1..Len(Dispatcher) : Dispatcher[i].name = cmd

\* net_cmd_dispatcher[cmd]
Handler(cmd) == Dispatcher[CHOOSE i \in 1..Len(Dispatcher) : Dispatcher[i].name = cmd].h

\* self.net_cmd_dispatcher[cmd](self, args)
Call(W, c, h, args) ==
    CASE h = "HI" -> net_cmd_hi(W, c, args)
      [] h = "ID" -> net_cmd_id(W, c, args)
      [] h = "CH" -> net_cmd_ch(W, c, args)
      [] h = "askchaa" -> net_cmd_askchaa(W, c, args)
      [] h = "askchar2" -> net_cmd_askchar2(W, c, args)
      [] h = "AN" -> net_cmd_an(W, c, args)
      [] h = "AE" -> net_cmd_ae(W, c, args)
      [] h = "AM" -> net_cmd_am(W, c, args)
      [] h = "RC" -> net_cmd_rc(W, c, args)
      [] h = "RM" -> net_cmd_rm(W, c, args)
      [] h = "RD" -> net_cmd_rd(W, c, args)
      [] h = "CC" -> net_cmd_cc(W, c, args)
      [] h = "MS" -> net_cmd_ms(W, c, args)
      [] h = "CT" -> net_cmd_ct(W, c, args)
      [] h = "MC" -> net_cmd_mc(W, c, args)
      [] h = "RT" -> net_cmd_rt(W, c, args)
      [] h = "SETCASE" -> net_cmd_setcase(W, c, args)
      [] h = "CASEA" -> net_cmd_casea(W, c, args)
      [] h = "HP" -> net_cmd_hp(W, c, args)
      [] h = "PE" -> net_cmd_pe(W, c, args)
      [] h = "DE" -> net_cmd_de(W, c, args)
      [] h = "EE" -> net_cmd_ee(W, c, args)
      [] h = "ZZ" -> net_cmd_zz(W, c, args)
      [] h = "opKICK" -> net_cmd_opKICK(W, c, args)
      [] h = "opBAN" -> net_cmd_opBAN(W, c, args)

\* lines 113-117: a frame that starts with '#', '3' or '4' has its first
\* field decrypted
decode_legacy(msg) ==
    IF msg[1] \in {"#", "3", "4"}
    THEN LET m == IF msg[1] = "#" THEN Tail(msg) ELSE msg
             spl == SplitOnce(m, <<"#">>)
             d == fanta_decrypt(spl[1])
         IN [ok |-> d.ok, msg |-> Join(<<d.v>> \o Tail(spl), <<"#">>)]
    ELSE [ok |-> TRUE, msg |-> msg]

\* the client, room and connection state a frame's handler can touch
Shot(W) ==
    [client |-> W.client, area |-> W.area,
     link |-> [k \in Clients |-> [transport |-> W.conn[k].transport,
                                  ping_timeout |-> W.conn[k].ping_timeout,
                                  timers |-> W.conn[k].timers]]]

\* what the trace keeps of one frame that reached the dispatch table: the
\* frame as get_messages yielded it, its command name and fields, where the
\* handler returned, the exception that left it, the events out[from+1..to] it
\* emitted, and the state before (W) and after (W1)
Traced(W, W1, c, raw, parts) ==
    [W1 EXCEPT !.trace = Append(@, [raw |-> raw, cmd |-> parts[1], args |-> Tail(parts),
                                    by |-> c, ret |-> W1.ret, dialect |-> W1.dialect,
                                    exc |-> W1.exc, from |-> Len(W.out),
                                    to |-> Len(W1.out), before |-> Shot(W),
                                    after |-> Shot(W1)]),
               !.ret = "", !.dialect = 0]

\* an except clause that only logs
unknown_message_logged(V, c) == [V EXCEPT !.exc = "none"]

\* an except clause that raises for every client
unknown_message_raised(V, c) == Raise(V, "ProtocolError")

\* lines 123-127: a KeyError, of the lookup or out of a handler, is logged,
\* and is a ProtocolError for a client that is not checked
unknown_message(V, c) ==
    IF V.client[c].is_checked THEN [V EXCEPT !.exc = "none"]
    ELSE Raise(V, "ProtocolError")

\* lines 120-127, with W1 the world the handler left
dispatched(W, W1, c, raw, parts) ==
    IF W1.exc = "KeyError" THEN Traced(W, unknown_message(W1, c), c, raw, parts)
    ELSE IF W1.exc # "none" THEN Traced(W, W1, c, raw, parts)
    ELSE IF parts[1] # <<"C", "H">>
    THEN Traced(W, [W1 EXCEPT !.client[c].last_pkt_time = W1.now], c, raw, parts)
    ELSE Traced(W, W1, c, raw, parts)

\* the str fields of a frame as the Python values the handlers get
split_args(parts) == [i \in 1..(Len(parts) - 1) |-> S(parts[i + 1])]

\* lines 118-127: cmd, *args = msg.split('#'), the lookup and the call
dispatch_parts(W, c, raw, parts) ==
    IF ~Known(parts[1]) THEN Traced(W, unknown_message(W, c), c, raw, parts)
    ELSE dispatched(W, Call(W, c, Handler(parts[1]), split_args(parts)), c, raw, parts)

dispatch(W, c, raw, msg) == dispatch_parts(W, c, raw, Split(msg, <<"#">>))

\* the for loop of lines 109-127 over the frames get_messages yields, from
\* the i-th on; while a frame is handled the buffer is what follows it
RECURSIVE handle_messages(_, _, _, _)

\* on to the next frame, unless an exception left the loop
next_message(W2, c, ys, i) ==
    IF W2.exc # "none" THEN W2 ELSE handle_messages(W2, c, ys, i + 1)

\* lines 113-127 for one frame of at least two characters
handle_decoded(W1, c, d, ys, i) ==
    IF ~d.ok THEN Raise(W1, "ValueError")
    ELSE next_message(dispatch(W1, c, ys[i].msg, d.msg), c, ys, i)

\* lines 110-127 for the frame msg
handle_message(W1, c, msg, ys, i) ==
    IF Len(msg) < 2 THEN handle_messages(W1, c, ys, i + 1)
    ELSE handle_decoded(W1, c, decode_legacy(msg), ys, i)

handle_messages(W, c, ys, i) ==
    IF i > Len(ys) THEN W
    ELSE handle_message([W EXCEPT !.conn[c].buffer = ys[i].buffer], c, ys[i].msg, ys, i)

\* buf.decode('utf-8', 'ignore'): "BAD" stands for every byte that is not
\* part of a character
decode(data) == SelectSeq(data, LAMBDA b : b # "BAD")

\* self.buffer.translate({ord(c): None for c in '\0'}): "NUL" is chr(0)
strip_nul(s) == SelectSeq(s, LAMBDA ch : ch # "NUL")

\* lines 92-104: the buffer after the chunk is taken in; kind tells a bytes
\* argument from a str argument
received_buffer(W, c, data, kind) ==
    strip_nul(IF kind = "bytes" THEN W.conn[c].buffer \o decode(data) ELSE data)

\* a length test that is off by one
check_length_late(W1, c) ==
    IF Len(W1.conn[c].buffer) > MaxBuffer + 1 THEN disconnect(W1, c) ELSE W1

\* lines 106-107
check_length(W1, c) ==
    IF Len(W1.conn[c].buffer) > MaxBuffer THEN disconnect(W1, c) ELSE W1

\* lines 108-127
read_messages(W2, c, gm) ==
    IF gm.raised THEN Raise(W2, "ProtocolError")
    ELSE handle_messages(W2, c, gm.yields, 1)

\* lines 128-129
catch_protocol_error(W3, c) ==
    IF W3.exc = "ProtocolError" THEN disconnect([W3 EXCEPT !.exc = "none"], c)
    ELSE W3

\* lines 106-129 on the buffer stored in W1
process_buffer(W1, c) ==
    catch_protocol_error(
        read_messages(check_length(W1, c), c, get_messages(W1.conn[c].buffer)), c)

\* data_received(data)
data_received(W, c, data, kind) ==
    process_buffer([W EXCEPT !.conn[c].buffer = received_buffer(W, c, data, kind)], c)


\* ------------------------------------------------------------------------
\* State after the connections are made, and the callbacks as actions
\* ------------------------------------------------------------------------

\* the Client that server.new_client creates, placed in the default area
NewClient ==
    [is_checked |-> FALSE, hdid |-> <<>>, char_id |-> -1, is_muted |-> FALSE,
     showname |-> <<>>, charcurse |-> <<>>, shaken |-> FALSE, disemvowel |-> FALSE,
     evi_list |-> <<0>>, charid_pair |-> -1, offset_pair |-> <<"0">>,
     last_sprite |-> <<>>, flip |-> 0, claimed_folder |-> <<>>, pos |-> <<>>,
     area |-> 0, last_pkt_time |-> 0, release |-> <<>>, major_version |-> <<>>,
     minor_version |-> <<>>, casing |-> <<>>, is_ooc_muted |-> FALSE,
     name |-> <<>>, fake_name |-> <<>>, is_dj |-> TRUE, can_wtce |-> TRUE,
     is_mod |-> FALSE, music_cd |-> 0, wtce_cd |-> FALSE, case_cd |-> FALSE,
     mod_cd |-> FALSE]

\* an area without clients, with the policy of a freshly configured room
NewArea(a) ==
    [clients |-> {}, owners |-> {}, afkers |-> {}, abbreviation |-> <<"A", Digits[a + 1]>>,
     showname_changes_allowed |-> TRUE, iniswap_allowed |-> TRUE,
     blankposting_allowed |-> TRUE, additive_allowed |-> FALSE,
     non_int_pres_only |-> FALSE, shouts_allowed |-> TRUE,
     testimony_open |-> TRUE, is_testifying |-> FALSE, is_examining |-> FALSE,
     testimony |-> NewTestimony(<<>>), examine_index |-> 0,
     last_ic_message |-> <<>>, evidences |-> <<>>, msg_blocked |-> FALSE,
     is_recording |-> FALSE, recorded_messages |-> <<>>, is_locked |-> FALSE,
     invite_list |-> {}, jukebox |-> FALSE, jukebox_votes |-> <<>>,
     current_music |-> <<>>, judgelog |-> <<>>, hp |-> <<MaxHp, MaxHp>>]

\* connection_made: buffer '' (line 58), the keepalive deadline armed and
\* its handle held in ping_timeout, the send of the decryptor seed scheduled
\* and its handle dropped
NewConn ==
    [buffer |-> <<>>, transport |-> "open", timers |-> call_later(<<>>), ping_timeout |-> 1,
     decryptor |-> "armed"]

\* no callback has run
NoCall == [by |-> 0, kind |-> "bytes", data |-> <<>>, prior |-> <<>>, checked |-> FALSE]

\* get_messages has not been run alone
NoResult == [of |-> <<>>, done |-> FALSE, raised |-> FALSE, yields |-> <<>>, buffer |-> <<>>]

\* every client connected and placed in area 0, nothing received yet
Connected ==
    /\ conn = [c \in Clients |-> NewConn]
    /\ area = [a \in Areas |-> IF a = 0 THEN [NewArea(a) EXCEPT !.clients = Clients]
                                ELSE NewArea(a)]
    /\ out = <<>>
    /\ trace = <<>>
    /\ uncaught = "none"
    /\ clock = 0
    /\ call = NoCall

Init ==
    /\ Connected
    /\ client = [c \in Clients |-> NewClient]
    /\ result = NoResult

\* data_received as asyncio calls it on an open transport.  An exception that
\* escapes the callback makes the event loop close the transport.
Outcome(W, c) ==
    /\ conn' = IF W.exc # "none"
               THEN [W.conn EXCEPT ![c].transport = "closing"] ELSE W.conn
    /\ client' = W.client
    /\ area' = W.area
    /\ out' = W.out
    /\ trace' = W.trace
    /\ uncaught' = W.exc

\* the callbacks that have run are counted
Returned(W, c) ==
    /\ Outcome(W, c)
    /\ clock' = clock + 1

Receive(c, data, kind) ==
    /\ conn[c].transport = "open"
    /\ clock < MaxChunks
    /\ call' = [by |-> c, kind |-> kind, data |-> data, prior |-> conn[c].buffer,
                checked |-> client[c].is_checked]
    /\ result' = result
    /\ Returned(data_received(World, c, data, kind), c)

\* connection_lost: server.remove_client takes the client out of its room,
\* the keepalive timer is cancelled
ConnectionLost(c) ==
    /\ conn[c].transport \in {"open", "closing"}
    /\ conn' = [conn EXCEPT ![c].transport = "lost",
                             ![c].timers = cancel(@, conn[c].ping_timeout)]
    /\ area' = [a \in Areas |-> [area[a] EXCEPT !.clients = @ \ {c},
                                                !.owners = @ \ {c},
                                                !.afkers = @ \ {c}]]
    /\ out' = <<>>
    /\ trace' = <<>>
    /\ uncaught' = "none"
    /\ call' = NoCall
    /\ UNCHANGED <<client, clock, result>>

\* the pacing delay of a room runs out
Tick(a) ==
    /\ area[a].msg_blocked
    /\ area' = [area EXCEPT ![a].msg_blocked = FALSE]
    /\ UNCHANGED <<conn, client, out, trace, uncaught, clock, call, result>>

\* frames of the wire: the fields joined by '#', then the terminator
Wire(fields) == Join(fields, <<"#">>) \o Terminator

\* n times the character ch
Rep(ch, n) == [i \in 1..n |-> ch]

\* ------------------------------------------------------------------------
\* Spec: the handshake phase
\* ------------------------------------------------------------------------

\* the chunks a peer sends in the handshake phase: handshakes with a free, a
\* banned and a malformed identity, unknown and short frames alone and next to
\* known ones, frames in the legacy encoding, frames split over two chunks,
\* and headers without a field delimiter
HandshakeChunks ==
    {<<"H", "I", "#", "h", "1", "#", "%">>, <<"H", "I", "#", "b", "1", "#", "%">>, <<"H", "I", "#", "b", "2", "#", "%">>, <<"H", "I", "#", "%">>, <<"H", "I", "#", "#", "%">>, <<"H", "I", "#", "h", "1", "#", "x", "#", "%">>,
     <<"X", "X", "#", "%">>, <<"X", "X", "#", "%", "H", "I", "#", "h", "1", "#", "%">>, <<"H", "I", "#", "h", "1", "#", "%", "X", "X", "#", "%", "C", "H", "#", "%">>, <<"X", "#", "%", "C", "H", "#", "%">>, <<"#", "%", "X", "X", "#", "%">>, <<"C", "H", "#", "%">>,
     <<"#", "4", "8", "E", "0", "#", "h", "1", "#", "%">>, <<"#", "5", "8", "9", "1", "#", "%", "C", "H", "#", "%">>, <<"#", "z", "z", "#", "%", "C", "H", "#", "%">>, <<"H", "I", "#", "h">>, <<"1", "#", "%">>,
     <<"C", "C", "#", "0", "#", "1", "#", "h", "1", "#", "%">>, <<"I", "D", "#", "1", "#", "A", "O", "2", "#", "2", ".", "8", ".", "5", "#", "%">>, <<"a", "s", "k", "c", "h", "a", "a", "#", "%">>,
     Rep("A", HeaderLen), Rep("A", HeaderLen) \o <<"#", "%">>,
     Rep("A", HeaderLen - 1) \o <<"#", "%", "C", "H", "#", "%">>, Rep("A", HeaderLen \div 2)}

\* what the other peers send meanwhile
BystanderChunks == {<<"H", "I", "#", "h", "2", "#", "%">>, <<"H", "I", "#", "b", "1", "#", "%">>, <<"X", "X", "#", "%", "C", "H", "#", "%">>, <<"C", "C", "#", "0", "#", "1", "#", "h", "2", "#", "%">>}

Chunks(c) == IF c = 1 THEN HandshakeChunks ELSE BystanderChunks

DataReceived == \E c \in Clients : \E d \in Chunks(c) : Receive(c, d, "bytes")

Lost == \E c \in Clients : ConnectionLost(c)

Next == DataReceived \/ Lost

Spec == Init /\ [][Next]_vars

\* ------------------------------------------------------------------------
\* SpecBuffer: buffers around the length limit
\* ------------------------------------------------------------------------

\* a handshake frame that lacks only its terminator, n characters long
Unfinished(n) == <<"H", "I", "#">> \o Rep("h", n - 3)

\* chunks that fill the buffer to just below the limit, and chunks that take
\* it to the limit or beyond: with and without a terminator, with null
\* characters, with a frame before the excess
BufferChunks ==
    {Unfinished(MaxBuffer - 2), <<"h">>, <<"h", "h">>, <<"h", "h", "h">>, <<"#", "%">>, <<"h", "#", "%">>,
     <<"h", "NUL", "NUL">>, <<"NUL", "NUL", "NUL">>, <<"#", "%", "C", "H", "#", "%">>,
     <<"C", "H", "#", "%">> \o Unfinished(MaxBuffer), Rep("A", MaxBuffer + 1)}

BufferReceived == \E c \in {1, 2} : \E d \in BufferChunks : Receive(c, d, "bytes")

NextBuffer == BufferReceived \/ Lost

SpecBuffer == Init /\ [][NextBuffer]_vars

\* ------------------------------------------------------------------------
\* SpecFrames: get_messages alone, on every short buffer and on long headers
\* ------------------------------------------------------------------------

\* the longest buffer of the enumeration
MaxLen == 4

RECURSIVE Texts(_)
\* the texts of at most n characters over '#', '%' and a letter
Texts(n) ==
    IF n = 0 THEN {<<>>}
    ELSE Texts(n - 1) \cup {Append(t, ch) : t \in Texts(n - 1), ch \in {"#", "%", "A"}}

FrameBuffers ==
    Texts(MaxLen)
    \cup {Rep("A", HeaderLen - 1) \o t : t \in Texts(MaxLen)}

InitFrames ==
    /\ Connected
    /\ client = [c \in Clients |-> NewClient]
    /\ result \in {[NoResult EXCEPT !.of = b] : b \in FrameBuffers}

\* get_messages run to exhaustion on the buffer result.of
Extract ==
    /\ ~result.done
    /\ result' = [of |-> result.of, done |-> TRUE,
                  raised |-> get_messages(result.of).raised,
                  yields |-> [i \in 1..Len(get_messages(result.of).yields) |->
                                 get_messages(result.of).yields[i].msg],
                  buffer |-> get_messages(result.of).buffer]
    /\ UNCHANGED <<conn, client, area, out, trace, uncaught, clock, call>>

NextFrames == Extract

SpecFrames == InitFrames /\ [][NextFrames]_vars

\* ------------------------------------------------------------------------
\* SpecIC: IC messages of clients that have joined with a character
\* ------------------------------------------------------------------------

\* the clients that send IC messages: client c has joined as character c - 1
Players == {1, 2}

\* a client after HI and CC: checked, its character chosen
Joined(c) ==
    [NewClient EXCEPT !.is_checked = TRUE, !.hdid = <<"h", Digits[c + 1]>>,
                      !.char_id = c - 1]

\* the positions client 2 may have taken
Positions == {<<>>, <<"w", "i", "t">>}

InitIC ==
    /\ Connected
    /\ \E p \in Positions :
           client = [c \in Clients |->
                        IF c = 2 THEN [Joined(c) EXCEPT !.pos = p]
                        ELSE IF c \in Players THEN Joined(c) ELSE NewClient]
    /\ result = NoResult

\* the 15 fields of a plain IC message of client c
IcFields(c) ==
    <<<<"c", "h", "a", "t">>, <<"-">>, CharList[c], <<"n">>, <<"h", "e", "l", "l", "o">>, <<"w", "i", "t">>, <<"1">>, <<"0">>,
      IntStr(c - 1), <<"0">>, <<"0">>, <<"0">>, <<"0">>, <<"0">>, <<"0">>>>

\* the 2.6 fields: showname, charid_pair, offset_pair, nonint_pre
Ic19(c, showname, pair) == IcFields(c) \o <<showname, pair, <<"0">>, <<"0">>>>

\* the 2.8 fields: sfx_looping, screenshake, frames_shake, frames_realization,
\* frames_sfx, additive, effect
Ic26(c, showname, pair) ==
    Ic19(c, showname, pair) \o <<<<"0">>, <<"0">>, <<"-">>, <<"-">>, <<"-">>, <<"0">>, <<"-">>>>

Ms(fields) == Wire(<<<<"M", "S">>>> \o fields)

\* the character of the other player
Partner(c) == IntStr(2 - c)

\* what client 1 sends: messages of the three shapes, with and without a
\* pairing request; lists that fit no shape; messages that fail one of the
\* later checks; two messages in one chunk
IcChunks ==
    {Ms(IcFields(1)),
     Ms(Ic19(1, <<"B", "o", "b">>, Partner(1))),
     Ms(Ic19(1, <<>>, IntStr(0))),
     Ms(Ic26(1, <<>>, Partner(1) \o <<"^", "1">>)),
     Ms(Ic26(1, <<>>, Partner(1))),
     Ms(Ic26(1, <<>>, <<"x">>)),
     Ms(Ic26(1, <<>>, <<"^", "1">>)),
     Ms(Tail(IcFields(1))),
     Ms([IcFields(1) EXCEPT ![3] = <<>>]),
     Ms([IcFields(1) EXCEPT ![8] = <<"x">>]),
     Ms(Ic19(1, <<>>, <<"x">>)),
     Ms([IcFields(1) EXCEPT ![1] = <<"b", "a", "d">>, ![5] = <<"/", "t", "e", "s", "t", "i", "f", "y", " ", "T">>]),
     Ms([IcFields(1) EXCEPT ![9] = Partner(1)]),
     Ms([Ic19(1, <<"B", "o", "b">>, Partner(1)) EXCEPT ![14] = <<"2">>]),
     Ms(Ic19(1, Rep("S", ShownameCap + 2), Partner(1))),
     Ms([IcFields(1) EXCEPT ![5] = Rep("t", ConfigMaxChars + 2)]),
     Ms(IcFields(1)) \o Ms(Ic19(1, <<>>, Partner(1))),
     <<"X", "X", "#", "%">> \o Ms(IcFields(1))}

\* what client 2 sends
PartnerChunks ==
    {Ms(IcFields(2)), Ms(Ic19(2, <<>>, Partner(2))), Ms(Ic19(2, <<>>, IntStr(1)))}

ICReceived ==
    \E c \in Players :
        \E d \in (IF c = 1 THEN IcChunks ELSE PartnerChunks) : Receive(c, d, "bytes")

Paced == \E a \in Areas : Tick(a)

NextIC == ICReceived \/ Lost \/ Paced

SpecIC == InitIC /\ [][NextIC]_vars

\* ------------------------------------------------------------------------
\* A room with a blankposting policy and a last IC message
\* ------------------------------------------------------------------------

\* every client connected, the players joined, nothing said yet.  allowed is
\* the blankposting policy of area 0
QuietRoom(allowed) ==
    [conn |-> [c \in Clients |-> NewConn],
     client |-> [c \in Clients |-> IF c \in Players THEN Joined(c) ELSE NewClient],
     area |-> [a \in Areas |->
                  IF a = 0 THEN [NewArea(a) EXCEPT !.clients = Clients,
                                                   !.blankposting_allowed = allowed]
                  ELSE NewArea(a)],
     out |-> <<>>, trace |-> <<>>, exc |-> "none", ret |-> "", dialect |-> 0,
     now |-> 0]

\* the room after client c has sent the chunk and the pacing delay has run out
Spoken(W, c, chunk) ==
    [a \in Areas |-> [data_received(W, c, chunk, "bytes").area[a]
                         EXCEPT !.msg_blocked = FALSE]]

\* a plain IC message of client c with the text
Say(c, text) == Ms([IcFields(c) EXCEPT ![5] = text])

\* the room is quiet, or client 1 has said 'hello' in it
InitRoom ==
    /\ conn = [c \in Clients |-> NewConn]
    /\ client = [c \in Clients |-> IF c \in Players THEN Joined(c) ELSE NewClient]
    /\ \E allowed \in BOOLEAN :
           area \in {QuietRoom(allowed).area,
                     Spoken(QuietRoom(allowed), 1, Say(1, <<"h", "e", "l", "l", "o">>))}
    /\ out = <<>>
    /\ trace = <<>>
    /\ uncaught = "none"
    /\ clock = 0
    /\ call = NoCall
    /\ result = NoResult

\* what client 1 says: a text, the same text with a trailing blank, blank and
\* empty texts, a short text, another text, and the start of a testimony
RoomTexts ==
    {<<"h", "e", "l", "l", "o">>, <<"h", "e", "l", "l", "o", " ">>, <<" ">>, <<>>, <<"h", "i">>, <<"o", "t", "h", "e", "r">>, <<"/", "t", "e", "s", "t", "i", "f", "y", " ", "T">>}

\* what client 2 says
OtherTexts == {<<"h", "e", "l", "l", "o">>, <<"o", "t", "h", "e", "r">>}

RoomReceived ==
    \E c \in Players :
        \E text \in (IF c = 1 THEN RoomTexts ELSE OtherTexts) :
            Receive(c, Say(c, text), "bytes")

NextRoom == RoomReceived \/ Lost \/ Paced

SpecRoom == InitRoom /\ [][NextRoom]_vars

\* ------------------------------------------------------------------------
\* A room with evidence, some of it visible from one position only
\* ------------------------------------------------------------------------

\* a piece of evidence that the position may see ('all': everyone)
Item(pos) == [name |-> <<"k", "n", "i", "f", "e">>, desc |-> <<>>, image |-> <<"k", ".", "p", "n", "g">>, pos |-> pos]

\* the evidence of the room: the first piece for the witness only, hidden
\* from both players, or for everyone; the second piece for everyone or for
\* the witness only.  One piece at least is not for everyone
Shelves ==
    {<<Item(<<"w", "i", "t">>), Item(<<"a", "l", "l">>)>>,
     <<Item(<<"p", "r", "o">>), Item(<<"a", "l", "l">>)>>,
     <<Item(<<"a", "l", "l">>), Item(<<"w", "i", "t">>)>>}

\* the room with the evidence; client 1 is the witness, client 2 the defence
Shelf(evidences) ==
    [QuietRoom(TRUE) EXCEPT !.area[0].evidences = evidences,
                            !.client[1].pos = <<"w", "i", "t">>,
                            !.client[2].pos = <<"d", "e", "f">>]

\* every client of the room has been sent the evidence it may see
Stocked(W) ==
    [k \in Clients |-> [W.client[k] EXCEPT !.evi_list = create_evi_list(W, 0, k)]]

InitEvidence ==
    /\ conn = [c \in Clients |-> NewConn]
    /\ \E evidences \in Shelves :
           /\ area = Shelf(evidences).area
           /\ client = Stocked(Shelf(evidences))
    /\ out = <<>>
    /\ trace = <<>>
    /\ uncaught = "none"
    /\ clock = 0
    /\ call = NoCall
    /\ result = NoResult

\* the evidence numbers a client presents
Presented == 0..3

\* a plain IC message of client c that presents evidence n, from position pos
Present(c, n, pos) == Ms([IcFields(c) EXCEPT ![6] = pos, ![12] = IntStr(n)])

EvidenceReceived ==
    \E c \in Players : \E n \in Presented :
        Receive(c, Present(c, n, client[c].pos), "bytes")

NextEvidence == EvidenceReceived \/ Lost \/ Paced

SpecEvidence == InitEvidence /\ [][NextEvidence]_vars

\* ------------------------------------------------------------------------
\* OOC messages: chat and commands, from a player and from a moderator
\* ------------------------------------------------------------------------

\* client 2 has logged in as a moderator
InitOOC ==
    /\ conn = [c \in Clients |-> NewConn]
    /\ client = [QuietRoom(TRUE).client EXCEPT ![2].is_mod = TRUE]
    /\ area = QuietRoom(TRUE).area
    /\ out = <<>>
    /\ trace = <<>>
    /\ uncaught = "none"
    /\ clock = 0
    /\ call = NoCall
    /\ result = NoResult

\* an OOC name, and a name with a format character
OocNames == {<<"A", "l">>, <<"A", "CF">>}

\* no command of that name; no name at all; commands that fail for their
\* area or argument, and that succeed; a moderator's command with a number
\* and with none; a command in capitals; a space before the slash; chat; a
\* text over the configured length
OocTexts ==
    {<<"/", "n", "o", "p", "e", " ", "f", "o", "o">>, <<"/">>, <<"/", "a", "r", "e", "a", " ", "A", "9">>, <<"/", "a", "r", "e", "a", " ", "A", "2">>, <<"/", "a", "r", "e", "a", " ", "A", "1">>, <<"/", "p", "o", "s">>,
     <<"/", "p", "o", "s", " ", "w", "i", "t">>, <<"/", "k", "i", "c", "k", " ", "1">>, <<"/", "k", "i", "c", "k", " ", "x">>, <<"/", "K", "I", "C", "K", " ", "1">>, <<" ", "/", "p", "o", "s">>, <<"h", "i">>,
     <<"/", "n", "o", "p", "e", " ", "f", "o", "o", " ", "b", "a", "r", "!">>}

Ct(name, text) == Wire(<<<<"C", "T">>, name, text>>)

OOCReceived ==
    \E c \in Players : \E name \in OocNames : \E text \in OocTexts :
        Receive(c, Ct(name, text), "bytes")

NextOOC == OOCReceived \/ Lost

SpecOOC == InitOOC /\ [][NextOOC]_vars

\* ------------------------------------------------------------------------
\* Keepalives and the deadline timers of the event loop
\* ------------------------------------------------------------------------

\* the event loop runs the callback of a timer that is armed when its time
\* has come: client.disconnect() closes the transport
Fire(c, h) ==
    /\ h \in 1..Len(conn[c].timers)
    /\ conn[c].timers[h] = "armed"
    /\ conn' = [conn EXCEPT ![c].timers[h] = "fired",
                             ![c].transport = IF @ = "open" THEN "closing" ELSE @]
    /\ out' = <<[ev |-> "disconnect", to |-> c, cmd |-> "", args |-> <<>>]>>
    /\ trace' = <<>>
    /\ uncaught' = "none"
    /\ call' = NoCall
    /\ UNCHANGED <<client, area, clock, result>>

\* one of the timers of the connection fires
Timeout(c) == \E h \in 1..Len(conn[c].timers) : Fire(c, h)

\* keepalives alone, two in one chunk, after a handshake, and after the
\* handshake of a banned client, which disconnects it
KeepaliveChunks ==
    {<<"C", "H", "#", "%">>, <<"C", "H", "#", "%", "C", "H", "#", "%">>, <<"H", "I", "#", "h", "1", "#", "%", "C", "H", "#", "%">>, <<"H", "I", "#", "b", "1", "#", "%", "C", "H", "#", "%">>, <<"H", "I", "#", "h", "1", "#", "%">>}

KeepaliveReceived ==
    \E c \in Clients : \E d \in KeepaliveChunks : Receive(c, d, "bytes")

Expired == \E c \in Clients : Timeout(c)

NextKeepalive == KeepaliveReceived \/ Lost \/ Expired

SpecKeepalive == Init /\ [][NextKeepalive]_vars

\* ------------------------------------------------------------------------
\* A connection that stops sending keepalives and goes on sending commands
\* ------------------------------------------------------------------------

\* commands that are no keepalive
ChatterChunks == {<<"H", "I", "#", "h", "1", "#", "%">>, <<"a", "s", "k", "c", "h", "a", "a", "#", "%">>}

\* data_received for a chunk without a keepalive, any number of times
Chatter(c, data) ==
    /\ conn[c].transport = "open"
    /\ call' = [by |-> c, kind |-> "bytes", data |-> data, prior |-> conn[c].buffer,
                checked |-> client[c].is_checked]
    /\ result' = result
    /\ clock' = clock
    /\ Outcome(data_received(World, c, data, "bytes"), c)

Chattered == \E c \in Players : \E d \in ChatterChunks : Chatter(c, d)

\* a keepalive; the connections send MaxChunks of them between them
Pinged == \E c \in Players : Receive(c, <<"C", "H", "#", "%">>, "bytes")

NextDeadline == Pinged \/ Chattered \/ Lost \/ Expired

\* the timers a connection may come to have
Deadlines == 1..(MaxChunks + 1)

\* the event loop runs the callback of every timer that stays armed
LoopFair == \A c \in Clients : \A h \in Deadlines : WF_vars(Fire(c, h))

SpecDeadline == Init /\ [][NextDeadline]_vars /\ LoopFair

\* ------------------------------------------------------------------------
\* Connections torn down while their timers are pending
\* ------------------------------------------------------------------------

\* the event loop runs the send of line 151 a quarter of a second after the
\* connection was made: client.send_command('decryptor', 34)
SendDecryptor(c) ==
    /\ conn[c].decryptor = "armed"
    /\ conn' = [conn EXCEPT ![c].decryptor = "fired"]
    /\ out' = <<[ev |-> "send", to |-> c, cmd |-> "decryptor", args |-> <<I(34)>>]>>
    /\ trace' = <<>>
    /\ uncaught' = "none"
    /\ call' = NoCall
    /\ UNCHANGED <<client, area, clock, result>>

Seeded == \E c \in Clients : SendDecryptor(c)

\* what the peers send around the teardown
TeardownChunks == {<<"C", "H", "#", "%">>, <<"H", "I", "#", "h", "1", "#", "%">>, <<"H", "I", "#", "b", "1", "#", "%", "C", "H", "#", "%">>}

TeardownReceived ==
    \E c \in Players : \E d \in TeardownChunks : Receive(c, d, "bytes")

NextTeardown == TeardownReceived \/ Lost \/ Expired \/ Seeded

SpecTeardown == Init /\ [][NextTeardown]_vars

\* ------------------------------------------------------------------------
\* A room that records or examines a testimony of two statements
\* ------------------------------------------------------------------------

\* the world W with the clients and rooms of R, the pacing delay of the
\* room of client c run out
Settled(W, R, c) ==
    [W EXCEPT !.client = R.client,
              !.area = [R.area EXCEPT ![R.client[c].area].msg_blocked = FALSE]]

\* the world after client c has said the text and the pacing delay has run out
Heard(W, c, text) == Settled(W, data_received(W, c, Say(c, text), "bytes"), c)

\* the world after client c has said the texts, one after the other
RECURSIVE Rehearsed(_, _, _)
Rehearsed(W, c, texts) ==
    IF texts = <<>> THEN W
    ELSE Rehearsed(Heard(W, c, Head(texts)), c, Tail(texts))

\* client 1 starts a testimony and makes two statements
Recital == <<<<"/", "t", "e", "s", "t", "i", "f", "y", " ", "T">>, <<"o", "n", "e">>, <<"t", "w", "o">>>>

\* the testimony is ended and its examination begun
Examination == Recital \o <<<<"/", "e", "n", "d">>, <<"/", "e", "x", "a", "m", "i", "n", "e">>>>

InitTestimony ==
    /\ conn = [c \in Clients |-> NewConn]
    /\ \E texts \in {Recital, Examination} :
       \E W \in {Rehearsed(QuietRoom(TRUE), 1, texts)} :
           /\ client = W.client
           /\ area = W.area
    /\ out = <<>>
    /\ trace = <<>>
    /\ uncaught = "none"
    /\ clock = 0
    /\ call = NoCall
    /\ result = NoResult

\* amendments of a statement, with a text that is a cursor marker, without a
\* text, with an index that is no number, none or no statement's; a removal;
\* cursor markers; a statement
TestimonyTexts ==
    {<<"/", "a", "m", "e", "n", "d", " ", "1", " ", "n", "e", "w">>, <<"/", "a", "m", "e", "n", "d", " ", "2", " ", ">">>, <<"/", "a", "m", "e", "n", "d", " ", "1", " ", "=", "2">>, <<"/", "a", "m", "e", "n", "d", " ", "1">>, <<"/", "a", "m", "e", "n", "d", " ", "x", " ", "n", "e", "w">>,
     <<"/", "a", "m", "e", "n", "d", " ", " ", "n", "e", "w">>, <<"/", "a", "m", "e", "n", "d", " ", "9", " ", "n", "e", "w">>, <<"/", "r", "e", "m", "o", "v", "e", " ", "1">>, <<">">>, <<"=", "1">>, <<"t", "h", "r", "e", "e">>}

TestimonyReceived ==
    \E c \in Players : \E text \in TestimonyTexts : Receive(c, Say(c, text), "bytes")

NextTestimony == TestimonyReceived \/ Lost \/ Paced

SpecTestimony == InitTestimony /\ [][NextTestimony]_vars

\* ------------------------------------------------------------------------
\* IC messages under another character's id, and from a spectator
\* ------------------------------------------------------------------------

\* client 3 has completed the handshake and has chosen no character; the room
\* is quiet, or examines the testimony client 1 has given
InitCast ==
    /\ conn = [c \in Clients |-> NewConn]
    /\ \E texts \in {<<>>, Examination} :
       \E W \in {Rehearsed(QuietRoom(TRUE), 1, texts)} :
           /\ client = [W.client EXCEPT ![3].is_checked = TRUE]
           /\ area = W.area
    /\ out = <<>>
    /\ trace = <<>>
    /\ uncaught = "none"
    /\ clock = 0
    /\ call = NoCall
    /\ result = NoResult

\* the character ids a message may bear: none, and those of the two players
CastIds == {-1, 0, 1}

\* a statement, and a step of the cursor
CastTexts == {<<"h", "e", "l", "l", "o">>, <<">">>}

CastReceived ==
    \E c \in Clients : \E cid \in CastIds : \E text \in CastTexts :
        Receive(c, Ms([IcFields(c) EXCEPT ![5] = text, ![9] = IntStr(cid)]), "bytes")

NextCast == CastReceived \/ Lost \/ Paced

SpecCast == InitCast /\ [][NextCast]_vars

\* ------------------------------------------------------------------------
\* Rooms that forbid shouts or force presentations that do not interrupt
\* ------------------------------------------------------------------------

\* the room with its two policies
Stage(shouts, only) ==
    [a \in Areas |-> IF a = 0 THEN [QuietRoom(TRUE).area[a] EXCEPT
                                       !.shouts_allowed = shouts,
                                       !.non_int_pres_only = only]
                     ELSE QuietRoom(TRUE).area[a]]

InitStage ==
    /\ conn = [c \in Clients |-> NewConn]
    /\ client = QuietRoom(TRUE).client
    /\ \E shouts \in BOOLEAN : \E only \in BOOLEAN : area = Stage(shouts, only)
    /\ out = <<>>
    /\ trace = <<>>
    /\ uncaught = "none"
    /\ clock = 0
    /\ call = NoCall
    /\ result = NoResult

\* the animation types a frame may bear, 4 being the legacy one
AnimTypes == {0, 1, 2, 4, 5, 6}

\* button selections: none, two of the whitelist of line 613, one outside it
Buttons == {0, 1, 23, 5}

\* a 2.6 message with the animation type, button, ding and preference flag
Staged(anim_type, button, ding, nonint_pre) ==
    Ms([Ic19(1, <<>>, IntStr(-1)) EXCEPT ![8] = IntStr(anim_type),
                                         ![11] = IntStr(button),
                                         ![14] = IntStr(ding),
                                         ![19] = IntStr(nonint_pre)])

\* the first message of a room: of the 2.6 shape, or of the pre-2.6 shape,
\* which has no preference flag
StageReceived ==
    /\ clock = 0
    /\ \E anim_type \in AnimTypes :
           \/ \E button \in Buttons : \E ding \in {0, 1} : \E nonint_pre \in {0, 1} :
                  Receive(1, Staged(anim_type, button, ding, nonint_pre), "bytes")
           \/ Receive(1, Ms([IcFields(1) EXCEPT ![8] = IntStr(anim_type)]), "bytes")

NextStage == StageReceived \/ Lost \/ Paced

SpecStage == InitStage /\ [][NextStage]_vars

\* ------------------------------------------------------------------------
\* Evidence commands of a player, of a spectator and of a client that has
\* not completed the handshake
\* ------------------------------------------------------------------------

\* client 1 has a character, client 2 has completed the handshake and has
\* chosen none, client 3 has only connected; the room holds one piece or two
InitLedger ==
    /\ conn = [c \in Clients |-> NewConn]
    /\ \E n \in {1, 2} :
           LET W == [QuietRoom(TRUE) EXCEPT
                        !.area[0].evidences = [i \in 1..n |-> Item(<<"a", "l", "l">>)],
                        !.client[2].char_id = -1]
           IN /\ area = W.area
              /\ client = Stocked(W)
    /\ out = <<>>
    /\ trace = <<>>
    /\ uncaught = "none"
    /\ clock = 0
    /\ call = NoCall
    /\ result = NoResult

\* evidence commands: with the documented number of fields, with a field
\* less or more, with a number that is none, with a number past the list
LedgerChunks ==
    {<<"P", "E", "#", "g", "u", "n", "#", "o", "l", "d", "#", "g", ".", "p", "n", "g", "#", "%">>, <<"P", "E", "#", "g", "u", "n", "#", "o", "l", "d", "#", "%">>, <<"P", "E", "#", "g", "u", "n", "#", "#", "g", ".", "p", "n", "g", "#", "x", "#", "%">>,
     <<"D", "E", "#", "1", "#", "%">>, <<"D", "E", "#", "x", "#", "%">>, <<"D", "E", "#", "1", "#", "2", "#", "%">>, <<"D", "E", "#", "9", "#", "%">>,
     <<"E", "E", "#", "1", "#", "g", "u", "n", "#", "o", "l", "d", "#", "g", ".", "p", "n", "g", "#", "%">>, <<"E", "E", "#", "1", "#", "g", "u", "n", "#", "o", "l", "d", "#", "%">>, <<"E", "E", "#", "9", "#", "g", "u", "n", "#", "o", "l", "d", "#", "g", ".", "p", "n", "g", "#", "%">>}

LedgerReceived ==
    \E c \in Clients : \E d \in LedgerChunks : Receive(c, d, "bytes")

NextLedger == LedgerReceived \/ Lost

SpecLedger == InitLedger /\ [][NextLedger]_vars

\* ------------------------------------------------------------------------
\* Music changes of a client whose cooldown runs, alone or in company
\* ------------------------------------------------------------------------

\* the seconds left of a cooldown that runs
Remaining == 7

\* client 1 is alone in area 0, the others having moved to area 1, or shares
\* it with them; its cooldown runs or does not; the room plays what is
\* chosen or collects votes
InitMusic ==
    /\ conn = [c \in Clients |-> NewConn]
    /\ \E alone \in BOOLEAN : \E cd \in {0, Remaining} : \E jukebox \in BOOLEAN :
           LET others == IF alone THEN 1 ELSE 0
               W == QuietRoom(TRUE)
           IN /\ client = [W.client EXCEPT ![1].music_cd = cd,
                                           ![2].area = others, ![3].area = others]
              /\ area = [W.area EXCEPT ![0].clients = {k \in Clients : k = 1 \/ ~alone},
                                       ![0].jukebox = jukebox,
                                       ![1].clients = {k \in Clients : k # 1 /\ alone}]
    /\ out = <<>>
    /\ trace = <<>>
    /\ uncaught = "none"
    /\ clock = 0
    /\ call = NoCall
    /\ result = NoResult

\* music changes of client c: a song, the stop token, a category, a song the
\* server has not, a song with a showname and an effect, a song under
\* another character's id, a list no shape fits, the name of an area
MusicChunks(c) ==
    {Wire(<<<<"M", "C">>, <<"s", ".", "m", "p", "3">>, IntStr(c - 1)>>),
     Wire(<<<<"M", "C">>, <<"~", "s", "t", "o", "p", ".", "m", "p", "3">>, IntStr(c - 1)>>),
     Wire(<<<<"M", "C">>, <<"=", "=", "C", "=", "=">>, IntStr(c - 1)>>),
     Wire(<<<<"M", "C">>, <<"x", ".", "m", "p", "3">>, IntStr(c - 1)>>),
     Wire(<<<<"M", "C">>, <<"s", ".", "m", "p", "3">>, IntStr(c - 1), <<"B", "o", "b">>, <<"1">>>>),
     Wire(<<<<"M", "C">>, <<"s", ".", "m", "p", "3">>, IntStr(2 - c)>>),
     Wire(<<<<"M", "C">>, <<"s", ".", "m", "p", "3">>>>),
     Wire(<<<<"M", "C">>, <<"A", "1">>, IntStr(c - 1)>>)}

MusicReceived ==
    \E c \in Players : \E d \in MusicChunks(c) : Receive(c, d, "bytes")

NextMusic == MusicReceived \/ Lost

SpecMusic == InitMusic /\ [][NextMusic]_vars

\* ------------------------------------------------------------------------
\* Commands of a connection that has not completed the handshake
\* ------------------------------------------------------------------------

\* the clients that have only connected; client 3 connects from a banned
\* address, client 1 has joined and shares their room
Strangers == {2, 3}

InitStranger ==
    /\ conn = [c \in Clients |-> NewConn]
    /\ client = [c \in Clients |-> IF c \in Strangers THEN NewClient ELSE Joined(c)]
    /\ area = QuietRoom(TRUE).area
    /\ out = <<>>
    /\ trace = <<>>
    /\ uncaught = "none"
    /\ clock = 0
    /\ call = NoCall
    /\ result = NoResult

\* what a stranger sends: an IC and an OOC message, an OOC command, music and a
\* move by music, a judge sign, a case announcement, a penalty, evidence
\* added, deleted and edited, a moderator call, the two aliases with and
\* without their field, a character choice, the end of the lists, case
\* preferences; the handshake, alone and ahead of an OOC message; handshakes
\* without a token, with an empty one, with two, with a banned one
StrangerChunks(c) ==
    {Ms(IcFields(c)),
     <<"C", "T", "#", "n", "#", "h", "i", "#", "%">>, <<"C", "T", "#", "n", "#", "/", "p", "o", "s", " ", "w", "i", "t", "#", "%">>,
     <<"M", "C", "#", "s", ".", "m", "p", "3", "#", "-", "1", "#", "%">>, <<"M", "C", "#", "A", "1", "#", "-", "1", "#", "%">>,
     <<"R", "T", "#", "t", "e", "s", "t", "i", "m", "o", "n", "y", "1", "#", "%">>,
     <<"C", "A", "S", "E", "A", "#", "t", "#", "1", "#", "1", "#", "1", "#", "1", "#", "1", "#", "%">>,
     <<"H", "P", "#", "1", "#", "5", "#", "%">>,
     <<"P", "E", "#", "g", "u", "n", "#", "o", "l", "d", "#", "g", ".", "p", "n", "g", "#", "%">>, <<"D", "E", "#", "1", "#", "%">>, <<"E", "E", "#", "1", "#", "g", "u", "n", "#", "o", "l", "d", "#", "g", ".", "p", "n", "g", "#", "%">>,
     <<"Z", "Z", "#", "h", "e", "l", "p", "#", "%">>,
     <<"o", "p", "K", "I", "C", "K", "#", "1", "#", "%">>, <<"o", "p", "B", "A", "N", "#", "1", "#", "%">>, <<"o", "p", "K", "I", "C", "K", "#", "%">>,
     <<"C", "C", "#", "0", "#", "2", "#", "h", "3", "#", "%">>, <<"R", "D", "#", "%">>, <<"S", "E", "T", "C", "A", "S", "E", "#", "c", "#", "1", "#", "0", "#", "0", "#", "0", "#", "0", "#", "0", "#", "%">>,
     <<"H", "I", "#", "h", "3", "#", "%">>, <<"H", "I", "#", "h", "3", "#", "%", "C", "T", "#", "n", "#", "h", "i", "#", "%">>,
     <<"H", "I", "#", "%">>, <<"H", "I", "#", "#", "%">>, <<"H", "I", "#", "h", "3", "#", "x", "#", "%">>, <<"H", "I", "#", "b", "1", "#", "%">>, <<"H", "I", "#", "b", "2", "#", "%">>}

StrangerReceived ==
    \E c \in Strangers : \E d \in StrangerChunks(c) : Receive(c, d, "bytes")

NextStranger == StrangerReceived \/ Lost

SpecStranger == InitStranger /\ [][NextStranger]_vars

\* ------------------------------------------------------------------------
\* IC messages in a room that forbids blank posts
\* ------------------------------------------------------------------------

\* the room of area 0 forbids blank posts; client 1 owns area 1 or no area
Forbidding(owned) ==
    [QuietRoom(FALSE) EXCEPT !.area[1].owners = IF owned THEN {1} ELSE {}]

\* no testimony, one that is being recorded, or one that is being examined
InitBlank ==
    /\ conn = [c \in Clients |-> NewConn]
    /\ \E owned \in BOOLEAN : \E texts \in {<<>>, Recital, Examination} :
       \E W \in {Rehearsed(Forbidding(owned), 1, texts)} :
           /\ client = W.client
           /\ area = W.area
    /\ out = <<>>
    /\ trace = <<>>
    /\ uncaught = "none"
    /\ clock = 0
    /\ call = NoCall
    /\ result = NoResult

\* texts without a character that is not whitespace; a statement; a short
\* text; the sub-commands with and without a text after them
BlankTexts ==
    {<<>>, <<" ", " ">>, <<"h", "e", "l", "l", "o">>, <<"h", "i">>,
     <<"/", "a", " ", "1">>, <<"/", "a", " ", "1", " ", "h", "e", "l", "l", "o">>, <<"/", "a", " ", "1", " ", " ">>, <<"/", "s", " ">> \o <<"\t">>, <<"/", "s", " ", "h", "e", "l", "l", "o">>,
     <<"/", "t", "e", "s", "t", "i", "f", "y", " ">>, <<"/", "e", "x", "a", "m", "i", "n", "e">>, <<"/", "e", "n", "d">>, <<"/", "a", "m", "e", "n", "d", " ", "1">>, <<"/", "a", "m", "e", "n", "d", " ", "1", " ", "n", "e", "w">>,
     <<"/", "a", "d", "d", " ">>, <<"/", "a", "d", "d", " ", "m", "o", "r", "e">>, <<"/", "r", "e", "m", "o", "v", "e", " ", "1">>}

BlankReceived ==
    \E c \in Players : \E text \in BlankTexts : Receive(c, Say(c, text), "bytes")

NextBlank == BlankReceived \/ Lost \/ Paced

SpecBlank == InitBlank /\ [][NextBlank]_vars

\* ------------------------------------------------------------------------
\* Properties
\* ------------------------------------------------------------------------

\* the buffer the last callback worked on: what was left from before and the
\* chunk, without the bytes that decode to nothing and without null characters
Given ==
    SelectSeq(IF call.kind = "bytes" THEN call.prior \o call.data ELSE call.data,
              LAMBDA ch : ch \notin {"NUL", "BAD"})

\* the texts before each terminator of a buffer, in stream order
Frames(buf) == SubSeq(Split(buf, Terminator), 1, Len(Split(buf, Terminator)) - 1)

\* the frames that are not skipped for being shorter than two characters
Dispatchable(buf) == SelectSeq(Frames(buf), LAMBDA f : Len(f) >= 2)

\* the buffer starts with HeaderLen characters none of which is '#'
Headless(buf) == Len(buf) >= HeaderLen /\ \A i \in 1..HeaderLen : buf[i] # "#"

\* the events the handler of a traced frame emitted
Events(t) == SubSeq(out, t.from + 1, t.to)

\* the client of the frame is disconnected by the callback's last event
DisconnectedLast(c) ==
    /\ out # <<>>
    /\ out[Len(out)].ev = "disconnect"
    /\ out[Len(out)].to = c
    /\ conn[c].transport = "closing"

\* some event of the callback disconnects the client
Disconnected(c) ==
    /\ \E k \in 1..Len(out) : out[k].ev = "disconnect" /\ out[k].to = c
    /\ conn[c].transport = "closing"

\* the frame was sent by a client that had not completed the handshake
Unchecked(t) == ~t.before.client[t.by].is_checked

\* C1 (as amended): a frame of at least two characters that names no command
\* of the dispatch table, sent by a client that is not checked, is the last
\* frame of its chunk to reach the table, gets no reply and changes no state,
\* and the callback ends by disconnecting the client; the frames that reach
\* the table are the frames of two characters or more, in stream order.
C1_UnknownBeforeHandshake ==
    \A i \in 1..Len(trace) :
        /\ trace[i].raw = Dispatchable(Given)[i]
        /\ (Unchecked(trace[i]) /\ ~Known(trace[i].cmd)) =>
               /\ i = Len(trace)
               /\ trace[i].to = trace[i].from
               /\ trace[i].after = trace[i].before
               /\ Len(out) = trace[i].to + 1
               /\ DisconnectedLast(trace[i].by)
               /\ uncaught = "none"

\* an unknown frame of a client that is not checked, with a frame behind it
C1_Witness ==
    /\ call.by # 0
    /\ Len(trace) = 1
    /\ Unchecked(trace[1])
    /\ ~Known(trace[1].cmd)
    /\ Len(Dispatchable(Given)) = 2

\* the first field of a frame, where no legacy marker makes it a cipher text
PlainName(f) == Split(f, <<"#">>)[1]

Marked(f) == Len(f) > 0 /\ f[1] \in {"#", "3", "4"}

\* C1 as stated: a client that is not checked and sends a frame whose command
\* name is not in the dispatch table is disconnected, whatever the frame's
\* length.
C1_AnyUnknownFrame ==
    (/\ call.by # 0
     /\ ~call.checked
     /\ ~Headless(Given)
     /\ Len(Frames(Given)) > 0
     /\ ~Marked(Frames(Given)[1])
     /\ ~Known(PlainName(Frames(Given)[1])))
    => Disconnected(call.by)

\* C2: a frame that names no command of the dispatch table, sent by a checked
\* client, changes no client, room or connection state, gets no reply, raises
\* nothing, and the next frame of the chunk is dispatched after it (unless
\* that frame's own first field cannot be decoded); frames reach the table in
\* stream order.
C2_UnknownAfterHandshake ==
    \A i \in 1..Len(trace) :
        /\ trace[i].raw = Dispatchable(Given)[i]
        /\ (~Unchecked(trace[i]) /\ ~Known(trace[i].cmd)) =>
               /\ trace[i].after = trace[i].before
               /\ trace[i].to = trace[i].from
               /\ trace[i].exc = "none"
               /\ i < Len(Dispatchable(Given)) =>
                      (Len(trace) > i \/ uncaught = "ValueError")

\* a checked client's unknown frame, and the keepalive behind it dispatched
C2_Witness ==
    \E i \in 1..Len(trace) :
        /\ ~Unchecked(trace[i])
        /\ ~Known(trace[i].cmd)
        /\ i < Len(trace)
        /\ trace[i + 1].cmd = <<"C", "H">>
        /\ conn[trace[i].by].transport = "open"

\* C3: when the buffer, after the chunk is appended and the null characters
\* are removed, is longer than MaxBuffer, the callback disconnects the client,
\* with or without a terminator in the buffer.
C3_Oversize ==
    (call.by # 0 /\ Len(Given) > MaxBuffer) => Disconnected(call.by)

\* a buffer one character over the limit that holds a complete frame
C3_Witness ==
    /\ call.by # 0
    /\ Len(Given) = MaxBuffer + 1
    /\ Contains(Given, Terminator)
    /\ Disconnected(call.by)

\* the three parts of C4 for the outcome of get_messages
SplitsExactly ==
    /\ Join(result.yields \o <<result.buffer>>, Terminator) = result.of
    /\ \A i \in 1..Len(result.yields) : ~Contains(result.yields[i], Terminator)
    /\ ~Contains(result.buffer, Terminator)

\* C4 (as amended): on a buffer that is no long header, get_messages raises
\* nothing, the frames it yields and the buffer it retains, joined by the
\* terminator, are the buffer it was given, and neither a frame nor the
\* retained buffer contains the terminator.
C4_Frames ==
    (result.done /\ ~Headless(result.of)) => (~result.raised /\ SplitsExactly)

\* a frame is yielded and text is retained
C4_Witness ==
    /\ result.done
    /\ ~Headless(result.of)
    /\ Len(result.yields) = 1
    /\ result.yields[1] # <<>>
    /\ result.buffer # <<>>

\* C4 as stated: for every buffer content.
C4_EveryBuffer == result.done => SplitsExactly

\* C5: when the buffer holds at least HeaderLen characters and none of the
\* first HeaderLen is '#', no frame reaches the dispatch table and the
\* callback disconnects the client.
C5_LongHeader ==
    (call.by # 0 /\ Headless(Given)) =>
        /\ trace = <<>>
        /\ DisconnectedLast(call.by)
        /\ uncaught = "none"

\* a long header with a terminator behind it
C5_Witness ==
    /\ call.by # 0
    /\ Headless(Given)
    /\ Contains(Given, Terminator)
    /\ DisconnectedLast(call.by)

\* some ban record names the client's network identity or the device identifier
Banned(c, hdid) ==
    \E k \in 1..Len(Bans) : Bans[k].ipid = Ipid(c) \/ Bans[k].hdid = hdid

\* C6 as stated: a handshake of a client that is not checked, with one
\* non-empty identifier and an active ban, timed or indefinite, is answered
\* by the ban notice and then the disconnect, and leaves the client unchecked.
C6_BanNotice ==
    \A i \in 1..Len(trace) :
        (/\ trace[i].cmd = <<"H", "I">>
         /\ Unchecked(trace[i])
         /\ Len(trace[i].args) = 1
         /\ trace[i].args[1] # <<>>
         /\ Banned(trace[i].by, trace[i].args[1])) =>
            /\ trace[i].to = trace[i].from + 2
            /\ out[trace[i].from + 1].ev = "send"
            /\ out[trace[i].from + 1].cmd = "BD"
            /\ out[trace[i].from + 2].ev = "disconnect"
            /\ ~trace[i].after.client[trace[i].by].is_checked
            /\ trace[i].exc = "none"

\* the frame is an IC message
IsMs(t) == t.cmd = <<"M", "S">>

\* the handler got past its checks of the client and the room's pacing
Admitted(t) ==
    /\ ~Unchecked(t)
    /\ ~t.before.client[t.by].is_muted
    /\ ~t.before.area[t.before.client[t.by].area].msg_blocked

\* the fields are as many as the shape's, none is empty where the shape wants
\* a value, and each is a numeral where the shape wants an int
Fits(args, shape) ==
    /\ Len(args) = Len(shape)
    /\ \A i \in 1..Len(shape) :
           /\ shape[i] # "STR_OR_EMPTY" => args[i] # <<>>
           /\ shape[i] = "INT" => ParseInt(args[i]).ok

\* the first of the three shapes that the fields fit, 0 when they fit none
FirstFit(args) ==
    IF Fits(args, Shape15) THEN 15
    ELSE IF Fits(args, Shape19) THEN 19
    ELSE IF Fits(args, Shape26) THEN 26
    ELSE 0

\* C7: the shape an IC message resolves to is a function of its fields: the
\* first of the 15-, 19- and 26-field shapes that the fields fit, and none
\* when they fit none or the sender has no character.
C7_FirstShape ==
    \A i \in 1..Len(trace) :
        (IsMs(trace[i]) /\ Admitted(trace[i])) =>
            trace[i].dialect =
                IF trace[i].before.client[trace[i].by].char_id = -1 THEN 0
                ELSE FirstFit(trace[i].args)

\* a message that fits only the shape tried last
C7_Witness ==
    \E i \in 1..Len(trace) :
        /\ IsMs(trace[i])
        /\ Admitted(trace[i])
        /\ trace[i].dialect = 26
        /\ ~Fits(trace[i].args, Shape19)

\* the compound pairing field starts with a numeral
PairLeads(args) == ParseInt(Split(args[17], <<"^">>)[1]).ok

\* the fields satisfy none of the three shapes in full
Unfit(args) ==
    /\ ~Fits(args, Shape15)
    /\ ~Fits(args, Shape19)
    /\ ~(Fits(args, Shape26) /\ PairLeads(args))

\* the state the handler left, without the time of the last packet that
\* data_received stamps on the client after every handler but the keepalive's
Handled(t) ==
    [t.after EXCEPT !.client[t.by].last_pkt_time = t.before.client[t.by].last_pkt_time]

\* C8 as stated: an IC message whose fields satisfy none of the shapes in
\* full changes no state, emits nothing, and leaves the connection open.
C8_Dropped ==
    \A i \in 1..Len(trace) :
        (IsMs(trace[i]) /\ Unfit(trace[i].args)) =>
            /\ Handled(trace[i]) = trace[i].before
            /\ trace[i].to = trace[i].from
            /\ trace[i].exc = "none"

\* the checks of lines 590-611, 641 and 653, by the place of their return
LaterChecks ==
    {"msg_type", "anim_type", "cid", "sfx_delay", "button", "evidence", "ding",
     "color", "showname length", "max_chars", "repeat"}

\* what C9 wants unchanged of a room
Testimony(r) ==
    <<r.is_testifying, r.is_examining, r.testimony, r.examine_index>>

\* C9 as stated: an IC message that returns at one of the later checks leaves
\* the testimony state of the room and the stored showname of the sender as
\* they were, and nothing is broadcast.
C9_NoEffect ==
    \A i \in 1..Len(trace) :
        (IsMs(trace[i]) /\ trace[i].ret \in LaterChecks) =>
            /\ \A a \in Areas :
                   Testimony(trace[i].after.area[a]) = Testimony(trace[i].before.area[a])
            /\ trace[i].after.client[trace[i].by].showname
                   = trace[i].before.client[trace[i].by].showname
            /\ \A k \in (trace[i].from + 1)..trace[i].to :
                   out[k].ev \notin {"area", "remote", "owner"}

\* the character the sender asks to be paired with
PairTarget(args) ==
    IF Len(args) = Len(Shape19) THEN ParseInt(args[17]).v
    ELSE IF Len(args) = Len(Shape26) THEN ParseInt(Split(args[17], <<"^">>)[1]).v
    ELSE -1

\* another client of the sender's room is the character the sender names,
\* names the sender's character, and stands where the sender stands
HasPartner(t) ==
    \E o \in t.before.area[t.before.client[t.by].area].clients \ {t.by} :
        /\ t.before.client[o].char_id = PairTarget(t.args)
        /\ t.before.client[o].charid_pair = t.before.client[t.by].char_id
        /\ t.before.client[o].pos = t.before.client[t.by].pos

\* the paired-id field of a broadcast IC message is the int -1
Unpaired(e) == e.args[17].t = "int" /\ e.args[17].v = -1

\* C10: the IC message a handler broadcasts to its room has paired id -1
\* unless, when it was handled, another client of the room was the character
\* the sender named, named the sender's character, and had the sender's
\* position.
C10_Paired ==
    \A i \in 1..Len(trace) :
        (IsMs(trace[i]) /\ trace[i].ret = "sent") =>
            \A k \in (trace[i].from + 1)..trace[i].to :
                (out[k].ev = "area" /\ out[k].cmd = "MS" /\ ~Unpaired(out[k]))
                    => HasPartner(trace[i])

\* a broadcast with a confirmed pair
C10_Witness ==
    \E i \in 1..Len(trace) :
        /\ IsMs(trace[i])
        /\ trace[i].ret = "sent"
        /\ \E k \in (trace[i].from + 1)..trace[i].to :
               out[k].ev = "area" /\ out[k].cmd = "MS" /\ ~Unpaired(out[k])
        /\ HasPartner(trace[i])

\* the area MS events among the events of a traced frame
Broadcasts(o, t) ==
    {k \in (t.from + 1)..t.to : o[k].ev = "area" /\ o[k].cmd = "MS"}

\* in the snapshot s, client a's stored pairing target is client b's character
Names(s, a, b) == s.client[b].char_id = s.client[a].charid_pair

\* the two clients name each other, stand at the same position and are two
Mutual(s, a, b) ==
    /\ a # b
    /\ Names(s, a, b)
    /\ Names(s, b, a)
    /\ s.client[a].pos = s.client[b].pos

\* the clients of the sender's room other than the sender
Others(t) == t.before.area[t.before.client[t.by].area].clients \ {t.by}

\* C11: an IC message is broadcast with a confirmed pair exactly when, in the
\* pairing state it leaves (the sender's target stored), some other client of
\* the room and the sender name each other's character and share a position.
\* The condition reads the same from either side, so a message of that other
\* client handled in this state is confirmed exactly when the sender's is;
\* with any part of it broken the broadcast carries the unpaired id.
C11_Symmetric ==
    \A i \in 1..Len(trace) :
        (IsMs(trace[i]) /\ trace[i].ret = "sent") =>
            \A k \in Broadcasts(out, trace[i]) :
                ~Unpaired(out[k]) <=>
                    /\ trace[i].after.client[trace[i].by].charid_pair > -1
                    /\ \E b \in Others(trace[i]) :
                           Mutual(trace[i].after, trace[i].by, b)

\* the second client's message is confirmed with the first as its partner
C11_Witness ==
    \E i \in 1..Len(trace) :
        /\ IsMs(trace[i])
        /\ trace[i].ret = "sent"
        /\ trace[i].by = 2
        /\ Mutual(trace[i].after, 2, 1)
        /\ \E k \in Broadcasts(out, trace[i]) : ~Unpaired(out[k])

\* the sender's message names the character of client b, who stands where the
\* sender stands
Targets(t, b) ==
    /\ PairTarget(t.args) > -1
    /\ t.before.client[b].char_id = PairTarget(t.args)
    /\ t.before.client[b].pos = t.before.client[t.by].pos

\* the broadcast carries a confirmed pair and what client b had stored
CarriesPartner(e, t, b) ==
    /\ ~Unpaired(e)
    /\ e.args[18] = S(t.before.client[b].claimed_folder)
    /\ e.args[19] = S(t.before.client[b].last_sprite)
    /\ e.args[21] = S(t.before.client[b].offset_pair)
    /\ e.args[22] = I(t.before.client[b].flip)

\* C12 (as amended): an IC message that names the character of another client
\* of the room at the sender's position, handled when that client's stored
\* pairing target is the sender's character, is broadcast with a confirmed
\* paired id and that client's offset, last sprite, flip and folder.  (Of two
\* clients that name each other in turn, this is the second message; the
\* first is handled before the partner has stored a target.)
C12_SecondConfirmed ==
    \A i \in 1..Len(trace) :
        (IsMs(trace[i]) /\ trace[i].ret = "sent") =>
            \A b \in Others(trace[i]) :
                (/\ Targets(trace[i], b)
                 /\ trace[i].before.client[b].charid_pair
                        = trace[i].before.client[trace[i].by].char_id) =>
                    /\ Broadcasts(out, trace[i]) # {}
                    /\ \A k \in Broadcasts(out, trace[i]) :
                           CarriesPartner(out[k], trace[i], b)

\* client 1 answers the pairing request of client 2, whose last message left
\* a sprite and a folder to carry
C12_Witness ==
    \E i \in 1..Len(trace) :
        /\ IsMs(trace[i])
        /\ trace[i].ret = "sent"
        /\ trace[i].by = 1
        /\ Targets(trace[i], 2)
        /\ trace[i].before.client[2].charid_pair = trace[i].before.client[1].char_id
        /\ trace[i].before.client[2].claimed_folder # <<>>
        /\ \E k \in Broadcasts(out, trace[i]) : CarriesPartner(out[k], trace[i], 2)

\* the one frame of a callback was an IC message of client a, broadcast, that
\* named the character of client b at a's position
SentNaming(tr, a, b) ==
    /\ Len(tr) = 1
    /\ IsMs(tr[1])
    /\ tr[1].ret = "sent"
    /\ tr[1].by = a
    /\ b \in Others(tr[1])
    /\ Targets(tr[1], b)

\* every broadcast of the callback's frame carries a confirmed pair
AllPaired(o, tr) ==
    \A k \in Broadcasts(o, tr[1]) : ~Unpaired(o[k])

\* C12 as stated: when one client's message naming the other has been
\* broadcast and the other client's message naming the first is broadcast
\* next, both broadcasts carry a confirmed paired id.
C12_BothConfirmed ==
    [][\A a, b \in Clients :
           (SentNaming(trace, a, b) /\ SentNaming(trace', b, a)) =>
               (AllPaired(out, trace) /\ AllPaired(out', trace'))]_vars

\* the room of the sender, before and after the frame
RoomBefore(t) == t.before.area[t.before.client[t.by].area]

RoomAfter(t) == t.after.area[t.before.client[t.by].area]

\* the frame drew one private notice with the text, and nothing else
OnlyNotice(t, msg) ==
    /\ t.to = t.from + 1
    /\ out[t.to].ev = "send"
    /\ out[t.to].to = t.by
    /\ out[t.to].cmd = "CT"
    /\ out[t.to].args = <<msg>>

\* the text has a character that is not whitespace
NonBlank(text) == \E i \in 1..Len(text) : text[i] \notin Whitespace

\* text and character id are those of the room's last IC message, trailing
\* whitespace aside
SameAsLast(text, cid, last) ==
    /\ last # <<>>
    /\ last[9].v = cid
    /\ RStrip(text) = RStrip(last[5].v)

\* the sender's text goes through the transformation as it is
PlainSender(t) ==
    /\ ~t.before.client[t.by].shaken
    /\ ~t.before.client[t.by].disemvowel

PlainText(text) ==
    /\ Len(text) <= TruncLen
    /\ \A i \in 1..Len(text) : text[i] # "COMB"
    /\ ~StartsWith(text, <<"/">>)

\* C13 (as amended): a transformed text with a character that is not
\* whitespace which, trailing whitespace aside, is the text of the room's last
\* IC message, from the character of that message, is never broadcast; the
\* message that the guard rejects draws the repeat notice and nothing else,
\* and leaves the room, its last IC message included, as it was.
C13_RepeatRejected ==
    \A i \in 1..Len(trace) :
        /\ (IsMs(trace[i]) /\ trace[i].ret = "sent") =>
               \A k \in Broadcasts(out, trace[i]) :
                   ~(/\ NonBlank(out[k].args[5].v)
                     /\ SameAsLast(out[k].args[5].v, out[k].args[9].v,
                                   RoomBefore(trace[i]).last_ic_message))
        /\ (IsMs(trace[i]) /\ trace[i].ret = "repeat") =>
               /\ OnlyNotice(trace[i], "Your message is a repeat of the last one. Don't spam!")
               /\ RoomAfter(trace[i]) = RoomBefore(trace[i])

\* the text with a trailing blank is rejected in the second callback, after
\* the room's last message had the text already
C13_Witness ==
    /\ clock = 2
    /\ \E i \in 1..Len(trace) :
           /\ IsMs(trace[i])
           /\ trace[i].ret = "repeat"
           /\ trace[i].args[5] = <<"h", "e", "l", "l", "o", " ">>
           /\ RoomAfter(trace[i]).last_ic_message[5].v = <<"h", "e", "l", "l", "o">>

\* C13 as stated: a non-empty transformed text that repeats the last message
\* of the same character is never broadcast.
C13_NonEmptyRejected ==
    \A i \in 1..Len(trace) :
        (IsMs(trace[i]) /\ trace[i].ret = "sent") =>
            \A k \in Broadcasts(out, trace[i]) :
                ~(/\ out[k].args[5].v # <<>>
                  /\ SameAsLast(out[k].args[5].v, out[k].args[9].v,
                                RoomBefore(trace[i]).last_ic_message))

\* C14: the guard rejects a message only when the room's last IC message, the
\* one broadcast most recently, came from the sender's character and had the
\* sender's text: a text that repeats the last message of another character
\* passes, and so does an earlier text once another message has been
\* broadcast after it.
C14_OnlyLastOfSame ==
    \A i \in 1..Len(trace) :
        (IsMs(trace[i]) /\ trace[i].ret = "repeat") =>
            /\ RoomBefore(trace[i]).last_ic_message # <<>>
            /\ RoomBefore(trace[i]).last_ic_message[9].v
                   = trace[i].before.client[trace[i].by].char_id
            /\ (PlainSender(trace[i]) /\ PlainText(trace[i].args[5])) =>
                   RStrip(trace[i].args[5])
                       = RStrip(RoomBefore(trace[i]).last_ic_message[5].v)

\* the text of the last message, of another character, is broadcast
C14_Witness ==
    \E i \in 1..Len(trace) :
        /\ IsMs(trace[i])
        /\ trace[i].ret = "sent"
        /\ RoomBefore(trace[i]).last_ic_message # <<>>
        /\ RoomBefore(trace[i]).last_ic_message[9].v
               # trace[i].before.client[trace[i].by].char_id
        /\ RoomBefore(trace[i]).last_ic_message[5].v = trace[i].args[5]
        /\ NonBlank(trace[i].args[5])

\* the checks that come before the blankposting check in the handler
EarlierChecks == {"showname", "iniswap", "charcurse"}

\* C17: in a room that forbids blank posts, an IC message of a valid shape
\* that reaches the blankposting check with an empty or whitespace-only text
\* draws the blankposting notice and nothing else, and leaves the room, its
\* last IC message and testimony state included, as it was.
C17_BlankDropped ==
    \A i \in 1..Len(trace) :
        (/\ IsMs(trace[i])
         /\ Admitted(trace[i])
         /\ trace[i].dialect # 0
         /\ trace[i].ret \notin EarlierChecks
         /\ ~RoomBefore(trace[i]).blankposting_allowed
         /\ ~NonBlank(trace[i].args[5])) =>
            /\ trace[i].ret = "blankpost"
            /\ OnlyNotice(trace[i], "Blankposting is forbidden in this area!")
            /\ RoomAfter(trace[i]) = RoomBefore(trace[i])

\* a text of one blank in a room that forbids blank posts and has a last message
C17_Witness ==
    \E i \in 1..Len(trace) :
        /\ IsMs(trace[i])
        /\ trace[i].ret = "blankpost"
        /\ trace[i].args[5] = <<" ">>
        /\ ~RoomBefore(trace[i]).blankposting_allowed
        /\ RoomBefore(trace[i]).last_ic_message # <<>>

\* the text of the frame is '/testify ' and a title
Testifies(t) ==
    /\ StartsWith(t.args[5], <<"/", "t", "e", "s", "t", "i", "f", "y", " ">>)
    /\ Len(t.args[5]) > 9
    /\ \A i \in 1..Len(t.args[5]) : t.args[5][i] # "COMB"

\* the title the frame gives
TitleOf(t) == Drop(t.args[5], 9)

\* the room neither records nor examines a testimony, and the sender may
\* start one
Idle(t) ==
    /\ ~RoomBefore(t).is_testifying
    /\ ~RoomBefore(t).is_examining
    /\ (t.by \in RoomBefore(t).owners \/ RoomBefore(t).testimony_open)

\* C18: an IC message with the text '/testify <title>' that is broadcast from
\* an idle room leaves the room testifying; the broadcast text is
\* '~~-- <title> --', its color is 3, and the testimony of that title holds
\* one statement, the broadcast message.
C18_Testify ==
    \A i \in 1..Len(trace) :
        (/\ IsMs(trace[i])
         /\ trace[i].ret = "sent"
         /\ Testifies(trace[i])
         /\ Idle(trace[i])
         /\ PlainSender(trace[i])) =>
            /\ RoomAfter(trace[i]).is_testifying
            /\ ~RoomAfter(trace[i]).is_examining
            /\ RoomAfter(trace[i]).testimony.title = TitleOf(trace[i])
            /\ Broadcasts(out, trace[i]) # {}
            /\ \A k \in Broadcasts(out, trace[i]) :
                   /\ out[k].args[5] = S(<<"~", "~", "-", "-", " ">> \o TitleOf(trace[i])
                                         \o <<" ", "-", "-">>)
                   /\ out[k].args[15] = I(3)
                   /\ RoomAfter(trace[i]).testimony.statements = <<out[k].args>>

\* a testimony is started in a room that had a last message
C18_Witness ==
    \E i \in 1..Len(trace) :
        /\ IsMs(trace[i])
        /\ trace[i].ret = "sent"
        /\ Testifies(trace[i])
        /\ Idle(trace[i])
        /\ RoomAfter(trace[i]).is_testifying
        /\ Len(RoomAfter(trace[i]).testimony.statements) = 1

\* the evidence lists the frame had sent to the room
Relisted(o, t) == {j \in (t.from + 1)..t.to : o[j].cmd = "LE"}

\* the piece g is one of the room's and not for everyone to see
Hidden(evidences, g) ==
    /\ g \in 1..Len(evidences)
    /\ evidences[g].pos # <<"a", "l", "l">>

Mapped(evi_list, n) == IF n + 1 \in 1..Len(evi_list) THEN evi_list[n + 1] ELSE 0

\* C16 as stated: an IC message that reaches the evidence lookup raises no
\* error, and the evidence field of its broadcast is what the sender's mapping
\* assigns to the index sent, 0 for an index the mapping does not have.
C16_MappedOrZero ==
    \A i \in 1..Len(trace) :
        (IsMs(trace[i]) /\ trace[i].ret \in {"sent", "raise"}) =>
            /\ trace[i].exc = "none"
            /\ \A k \in Broadcasts(out, trace[i]) :
                   out[k].args[12].v
                       = Mapped(trace[i].before.client[trace[i].by].evi_list,
                                DigitsVal(trace[i].args[12]))

IsCt(t) == t.cmd = <<"C", "T">> /\ Len(t.args) = 2

\* the text of the OOC message is a command
Slashed(t) == StartsWith(t.args[2], <<"/">>)

\* the command token of the text, as the handler looks it up
Token(t) == Lower(SplitOnce(Tail(t.args[2]), <<" ">>)[1])

\* the handler got to the text: the client is checked and not muted, the name
\* it goes by is allowed and the text is not over the configured length
ReachesText(t) ==
    /\ ~Unchecked(t)
    /\ ~t.before.client[t.by].is_ooc_muted
    /\ t.args[1] # <<>>
    /\ t.after.client[t.by].name # <<>>
    /\ Len(t.after.client[t.by].name) <= NameCap
    /\ \A i \in 1..Len(t.after.client[t.by].name) : t.after.client[t.by].name[i] # "CF"
    /\ ~StartsWith(t.after.client[t.by].name, <<"<", "d", "o", "l", "l", "a", "r", ">">>)
    /\ Len(t.args[2]) <= ConfigMaxChars

\* the notices of the except clauses of lines 791-797
Failed(t) ==
    \E k \in (t.from + 1)..t.to :
        /\ out[k].ev = "send"
        /\ out[k].cmd = "CT"
        /\ out[k].args \in {<<"ex">>,
                            <<"An internal error occurred. Please check the server log.">>}

\* C19: an OOC message whose text begins with '/' is sent to no room and to
\* no owners as chat, raises no error and leaves the connection open; when
\* the handler gets to the text and it names no command, the sender gets the
\* notice 'Invalid command.' and nothing else happens; when the command
\* raises, a domain error or another exception, the notice to the sender is
\* the only outcome.
C19_CommandPrivate ==
    \A i \in 1..Len(trace) :
        (IsCt(trace[i]) /\ Slashed(trace[i])) =>
            /\ \A k \in (trace[i].from + 1)..trace[i].to :
                   ~(out[k].ev \in {"area", "owner", "remote", "all"} /\ out[k].cmd = "CT")
            /\ trace[i].exc = "none"
            /\ trace[i].after.link[trace[i].by].transport = "open"
            /\ (ReachesText(trace[i]) /\ Token(trace[i]) \notin Commands) =>
                   /\ OnlyNotice(trace[i], "Invalid command.")
                   /\ trace[i].after.area = trace[i].before.area
            /\ Failed(trace[i]) =>
                   /\ trace[i].to = trace[i].from + 1
                   /\ trace[i].after.area = trace[i].before.area

\* a moderator's command raised an exception that is no domain error
C19_Witness ==
    \E i \in 1..Len(trace) :
        /\ IsCt(trace[i])
        /\ Slashed(trace[i])
        /\ trace[i].before.client[trace[i].by].is_mod
        /\ OnlyNotice(trace[i], "An internal error occurred. Please check the server log.")
        /\ conn[trace[i].by].transport = "open"

\* the timers of the connection that may still fire
Armed(timers) == {h \in 1..Len(timers) : timers[h] = "armed"}

\* C20: a connection never has two armed deadline timers, and an armed timer
\* is the one the connection holds, so that every timer a keepalive or the
\* loss of the connection has left behind is cancelled or has fired; a
\* keepalive is answered by CHECK, and after it the one armed timer is a new
\* one, the timer held before being armed no more.
C20_OneDeadline ==
    /\ \A c \in Clients :
           /\ Cardinality(Armed(conn[c].timers)) <= 1
           /\ \A h \in Armed(conn[c].timers) : h = conn[c].ping_timeout
    /\ \A i \in 1..Len(trace) :
           trace[i].cmd = <<"C", "H">> =>
               /\ trace[i].to = trace[i].from + 1
               /\ out[trace[i].to].ev = "send"
               /\ out[trace[i].to].to = trace[i].by
               /\ out[trace[i].to].cmd = "CHECK"
               /\ Armed(trace[i].after.link[trace[i].by].timers)
                      = {Len(trace[i].before.link[trace[i].by].timers) + 1}
               /\ Len(trace[i].after.link[trace[i].by].timers)
                      = Len(trace[i].before.link[trace[i].by].timers) + 1
               /\ trace[i].after.link[trace[i].by].ping_timeout
                      = Len(trace[i].after.link[trace[i].by].timers)

\* a connection that has sent three keepalives is closed by its fourth timer,
\* the three before it cancelled
C20_Witness ==
    \E c \in Clients :
        /\ conn[c].timers = <<"cancelled", "cancelled", "cancelled", "fired">>
        /\ conn[c].transport = "closing"

\* a timer of the connection has fired
Fired(c) == \E h \in 1..Len(conn[c].timers) : conn[c].timers[h] = "fired"

\* the step is a callback of data_received that handled no keepalive
NoKeepalive ==
    /\ call'.by \in Clients
    /\ trace' # <<>>
    /\ \A i \in 1..Len(trace') : trace'[i].cmd # <<"C", "H">>

SeededLost(c) ==
    /\ conn[c].transport = "lost"
    /\ out # <<>>
    /\ out[1].cmd = "decryptor"
    /\ out[1].to = c

\* C22 as stated: a connection that is lost has no timer pending, neither a
\* keepalive deadline nor the send of the decryptor seed, and no timer's
\* callback is run for it.
C22_NonePending ==
    \A c \in Clients :
        conn[c].transport = "lost" =>
            /\ Armed(conn[c].timers) = {}
            /\ conn[c].decryptor # "armed"
            /\ ~SeededLost(c)

\* C23 as stated: when the buffer is longer than MaxBuffer after the chunk is
\* appended, no frame of it reaches the dispatch table, the callback emits
\* nothing but the disconnect, and the client is as unchecked as it was.
C23_NothingDispatched ==
    (call.by # 0 /\ Len(Given) > MaxBuffer) =>
        /\ trace = <<>>
        /\ \A k \in 1..Len(out) : out[k].ev = "disconnect"
        /\ client[call.by].is_checked = call.checked

\* the text of the frame is '/amend ' and more
Amends(t) == StartsWith(t.args[5], <<"/", "a", "m", "e", "n", "d", " ">>)

\* the index and the new text the frame gives
AmendIndex(t) == ParseInt(Split(t.args[5], <<" ">>)[2])

AmendText(t) == Join(Drop(Split(t.args[5], <<" ">>), 2), <<" ">>)

\* the frame got to the testimony commands and its amendment was applied
Amended(t) ==
    /\ IsMs(t)
    /\ Amends(t)
    /\ t.ret \in {"/amend recorded", "navigate", "sent"}
    /\ \E k \in (t.from + 1)..t.to :
           out[k].ev = "send" /\ out[k].args = <<"testimony: amended">>

\* C24 as stated: an amendment that is applied replaces the statement of its
\* index and no other; in a room that records, nothing is broadcast; in a
\* room that examines, the cursor is left on the amended statement and the
\* new text is broadcast.
C24_AmendByMode ==
    \A i \in 1..Len(trace) :
        Amended(trace[i]) =>
            /\ Len(RoomAfter(trace[i]).testimony.statements)
                   = Len(RoomBefore(trace[i]).testimony.statements)
            /\ \A n \in 1..Len(RoomBefore(trace[i]).testimony.statements) :
                   IF n = AmendIndex(trace[i]).v + 1
                   THEN RoomAfter(trace[i]).testimony.statements[n][5]
                            = S(AmendText(trace[i]))
                   ELSE RoomAfter(trace[i]).testimony.statements[n]
                            = RoomBefore(trace[i]).testimony.statements[n]
            /\ RoomBefore(trace[i]).is_testifying =>
                   \A k \in (trace[i].from + 1)..trace[i].to : out[k].ev = "send"
            /\ RoomBefore(trace[i]).is_examining =>
                   /\ RoomAfter(trace[i]).examine_index = AmendIndex(trace[i]).v
                   /\ \E k \in Broadcasts(out, trace[i]) :
                          out[k].args[5] = S(AmendText(trace[i]))

\* the sender has no character, or the frame bears a character id that is not
\* the sender's
Miscast(t) ==
    \/ t.before.client[t.by].char_id = -1
    \/ ~ParseInt(t.args[9]).ok
    \/ ParseInt(t.args[9]).v # t.before.client[t.by].char_id

\* the event replays a statement of the room's testimony
Replay(t, e) ==
    \E n \in 1..Len(RoomBefore(t).testimony.statements) :
        e.args = RoomBefore(t).testimony.statements[n]

WireAnim(t) == IF ParseInt(t.args[8]).v = 4 THEN 6 ELSE ParseInt(t.args[8]).v

WireButton(t) == ParseInt(t.args[11])

\* the preference flag the frame bears; a frame of the pre-2.6 shape has none
WireFlag(t) == IF Len(t.args) >= 19 THEN ParseInt(t.args[19]).v ELSE 0

\* the talking type of an objection type
Talking(anim_type) ==
    IF anim_type = 2 THEN 1 ELSE IF anim_type = 6 THEN 5 ELSE anim_type

\* the type without a preanimation
Quiet(anim_type) ==
    IF anim_type \in {1, 2} THEN 0 ELSE IF anim_type = 6 THEN 5 ELSE anim_type

\* C26: every IC message broadcast from a room that forbids shouts has button
\* 0 and ding 0, and its animation type is neither 2 nor 6; where no earlier
\* rule has changed the type, 2 has become 1, and 6, the legacy 4 included,
\* has become 5.
C26_NoShouts ==
    \A i \in 1..Len(trace) :
        (IsMs(trace[i]) /\ ~RoomBefore(trace[i]).shouts_allowed) =>
            \A k \in Broadcasts(out, trace[i]) :
                /\ out[k].args[11].t = "int" /\ out[k].args[11].v = 0
                /\ out[k].args[14] = I(0)
                /\ out[k].args[8].t = "int"
                /\ out[k].args[8].v \notin {2, 6}
                /\ (~RoomBefore(trace[i]).non_int_pres_only /\ WireFlag(trace[i]) = 0) =>
                       out[k].args[8].v = Talking(WireAnim(trace[i]))

\* the legacy objection type with a button and a ding is broadcast as type 5
C26_Witness ==
    \E i \in 1..Len(trace) :
        /\ IsMs(trace[i])
        /\ ~RoomBefore(trace[i]).shouts_allowed
        /\ ~RoomBefore(trace[i]).non_int_pres_only
        /\ trace[i].args[8] = <<"4">>
        /\ trace[i].args[11] = <<"2", "3">>
        /\ trace[i].args[14] = <<"1">>
        /\ \E k \in Broadcasts(out, trace[i]) : out[k].args[8] = I(5)

\* C27 (as amended): every IC message broadcast from a room that forces
\* presentations that do not interrupt has animation type 0 or 5: 1 and 2
\* have become 0, and 6 has become 5, and then the preference flag is 1; a
\* message of type 0 or 5 keeps the flag of its frame.
C27_QuietOnly ==
    \A i \in 1..Len(trace) :
        (IsMs(trace[i]) /\ RoomBefore(trace[i]).non_int_pres_only) =>
            \A k \in Broadcasts(out, trace[i]) :
                /\ out[k].args[8] = I(Quiet(WireAnim(trace[i])))
                /\ out[k].args[8].v \in {0, 5}
                /\ out[k].args[23]
                       = I(IF WireAnim(trace[i]) \in {0, 5} THEN WireFlag(trace[i]) ELSE 1)

\* a type 2 without the flag is broadcast as type 0 with the flag
C27_Witness ==
    \E i \in 1..Len(trace) :
        /\ IsMs(trace[i])
        /\ RoomBefore(trace[i]).non_int_pres_only
        /\ trace[i].args[8] = <<"2">>
        /\ WireFlag(trace[i]) = 0
        /\ \E k \in Broadcasts(out, trace[i]) :
               out[k].args[8] = I(0) /\ out[k].args[23] = I(1)

\* C27 as stated: every IC message broadcast from such a room has the flag 1
\* and a type of 0 or 5.
C27_FlagAlways ==
    \A i \in 1..Len(trace) :
        (IsMs(trace[i]) /\ RoomBefore(trace[i]).non_int_pres_only) =>
            \A k \in Broadcasts(out, trace[i]) :
                /\ out[k].args[8].v \in {0, 5}
                /\ out[k].args[23] = I(1)

\* C28 as stated: a message with the preference flag 1 and a button of the
\* whitelist is broadcast with its type 1 or 2 turned to 0 and 6 to 5.
C28_Whitelisted ==
    \A i \in 1..Len(trace) :
        (/\ IsMs(trace[i])
         /\ WireFlag(trace[i]) = 1
         /\ WireButton(trace[i]).ok
         /\ WireButton(trace[i]).v \in {1, 2, 3, 4, 23}) =>
            \A k \in Broadcasts(out, trace[i]) :
                out[k].args[8].v \in {0, 5}

\* the sender's frame has a "^" in its paired-id field (2.8 shape only)
TagSupplied(args) ==
    Len(args) = Len(Shape26) /\ Contains(args[17], <<"^">>)

\* the paired-id field of a broadcast is the bare id the sender named
PlainPair(e, t) ==
    \/ e.args[17].t = "int" /\ e.args[17].v = PairTarget(t.args)
    \/ e.args[17].t = "str" /\ e.args[17].v = IntStr(PairTarget(t.args))

\* the paired-id field of a broadcast is the field the sender sent, tag and all
TaggedPair(e, t) == e.args[17].t = "str" /\ e.args[17].v = t.args[17]

\* C29: a broadcast with a confirmed pair carries '<id>^<tag>' only when the
\* sender's frame had a tag; a 2.6 frame, or a 2.8 frame without "^", is
\* broadcast with the plain paired id.
C29_TagOnlySupplied ==
    \A i \in 1..Len(trace) :
        (IsMs(trace[i]) /\ trace[i].ret = "sent") =>
            \A k \in Broadcasts(out, trace[i]) :
                ~Unpaired(out[k]) =>
                    IF TagSupplied(trace[i].args)
                    THEN TaggedPair(out[k], trace[i])
                    ELSE PlainPair(out[k], trace[i])

\* the frame is an evidence command with the documented number of fields
IsEvidence(t) ==
    \/ t.cmd = <<"P", "E">> /\ Len(t.args) = 3
    \/ t.cmd = <<"D", "E">> /\ Len(t.args) = 1
    \/ t.cmd = <<"E", "E">> /\ Len(t.args) = 4

\* the room's evidence list was sent to the room, last of all the frame drew
Relayed(t) ==
    /\ t.to > t.from
    /\ out[t.to].ev = "area"
    /\ out[t.to].cmd = "LE"
    /\ out[t.to].to = t.before.client[t.by].area

\* the frame changed nothing and drew nothing (data_received stamps the time
\* of every packet on the client before the handler runs)
Ignored(t) ==
    /\ t.to = t.from
    /\ t.after.area = t.before.area
    /\ \A k \in Clients :
           t.after.client[k] = [t.before.client[k] EXCEPT
                                   !.last_pkt_time = t.after.client[k].last_pkt_time]

\* the evidence of the sender's room changed with the frame
Applied(t) == RoomAfter(t).evidences # RoomBefore(t).evidences

\* C30 (as amended): an evidence command is applied only for a client that
\* has completed the handshake and has chosen a character; every applied
\* command ends with the evidence list sent to the room; the command of a
\* client that has not completed the handshake, or that has chosen no
\* character, changes nothing and sends nothing.
C30_CharacterRequired ==
    \A i \in 1..Len(trace) :
        LET t == trace[i]
            sender == t.before.client[t.by]
        IN (t.cmd \in {<<"P", "E">>, <<"D", "E">>, <<"E", "E">>}) =>
               /\ Applied(t) => (IsEvidence(t) /\ Relayed(t) /\ sender.is_checked
                                    /\ sender.char_id # -1)
               /\ (~sender.is_checked \/ sender.char_id = -1) => Ignored(t)
               /\ (t.cmd = <<"P", "E">> /\ IsEvidence(t) /\ sender.is_checked
                      /\ sender.char_id # -1) => Applied(t)

\* a player's command was applied and relayed, a spectator's was ignored
C30_Witness ==
    /\ Len(trace) > 0
    /\ \E i \in 1..Len(trace) :
           /\ IsEvidence(trace[i])
           /\ trace[i].before.client[trace[i].by].is_checked
           /\ trace[i].before.client[trace[i].by].char_id = -1
           /\ Ignored(trace[i])
    /\ clock = MaxChunks

\* C30: the evidence command of a client that has completed the handshake,
\* with the documented number of fields, is applied whether or not the client
\* has chosen a character, and ends with the evidence list sent to the room;
\* the command of a client that has not completed the handshake changes
\* nothing and sends nothing.
C30_SpectatorApplied ==
    \A i \in 1..Len(trace) :
        LET t == trace[i]
            sender == t.before.client[t.by]
        IN (t.cmd \in {<<"P", "E">>, <<"D", "E">>, <<"E", "E">>}) =>
               /\ (IsEvidence(t) /\ sender.is_checked /\ t.cmd = <<"P", "E">>) =>
                      (Applied(t) /\ Relayed(t))
               /\ Applied(t) => Relayed(t)
               /\ ~sender.is_checked => Ignored(t)

\* the frame is a music selection that gets to the cooldown check of line
\* 846: of a client that has completed the handshake, is not muted, may
\* change the music and is admitted by the room, naming no area, of one of
\* the four shapes, under the client's own character
Selects(t) ==
    LET sender == t.before.client[t.by]
    IN /\ t.cmd = <<"M", "C">>
       /\ sender.is_checked /\ ~sender.is_muted /\ sender.is_dj
       /\ ~(RoomBefore(t).is_locked /\ t.by \notin RoomBefore(t).invite_list)
       /\ Len(t.args) \in 2..5
       /\ t.args[1] # <<>>
       /\ AreaNamed(t.args[1]) = {}
       /\ sender.char_id # -1
       /\ ParseInt(t.args[2]).ok
       /\ ParseInt(t.args[2]).v = sender.char_id
       /\ Len(t.args) >= 4 => ParseInt(t.args[4]).ok
       /\ Len(t.args) >= 5 => ParseInt(t.args[5]).ok

\* the sender's cooldown ran when the frame was handled
Cooling(t) == t.before.client[t.by].music_cd # 0

\* the frame drew the notice of the seconds left and nothing else, and the
\* room plays and has collected what it did before
Refused(t) ==
    /\ t.to = t.from + 1
    /\ out[t.to].ev = "send"
    /\ out[t.to].to = t.by
    /\ out[t.to].cmd = "CT"
    /\ out[t.to].args
           = <<"You changed the song too many times. Please try again after {} seconds.",
               t.before.client[t.by].music_cd>>
    /\ t.after.area = t.before.area

\* the sender was the only client of its room
Alone(t) == RoomBefore(t).clients = {t.by}

\* C31 (as amended): a music selection made while the client's cooldown runs,
\* in a room the client shares with others, is refused with a notice of the
\* seconds left, and the room's music and votes stay as they were; the
\* selection of a client that is alone in its room is never refused so.
C31_CooldownInCompany ==
    \A i \in 1..Len(trace) :
        (Selects(trace[i]) /\ Cooling(trace[i])) =>
            IF Alone(trace[i]) THEN ~Refused(trace[i]) ELSE Refused(trace[i])

\* a selection refused in company
C31_Witness ==
    \E i \in 1..Len(trace) :
        /\ Selects(trace[i])
        /\ Cooling(trace[i])
        /\ ~Alone(trace[i])
        /\ Refused(trace[i])

\* C31: a music selection made while the client's cooldown runs is refused
\* with a notice of the seconds left, and the room's music and votes stay as
\* they were, however many clients the room has.
C31_CooldownAlways ==
    \A i \in 1..Len(trace) :
        (Selects(trace[i]) /\ Cooling(trace[i])) => Refused(trace[i])

\* the commands of the claim: IC, OOC, music, judge sign, case announcement,
\* penalty bar, evidence, moderator call, and the two aliases
RoomCommands ==
    {<<"M", "S">>, <<"C", "T">>, <<"M", "C">>, <<"R", "T">>, <<"C", "A", "S", "E", "A">>, <<"H", "P">>, <<"P", "E">>, <<"D", "E">>, <<"E", "E">>, <<"Z", "Z">>,
     <<"o", "p", "K", "I", "C", "K">>, <<"o", "p", "B", "A", "N">>}

\* the frame left the rooms and the other clients as they were, and what it
\* drew went to its sender alone
Unseen(t) ==
    /\ t.after.area = t.before.area
    /\ \A k \in Clients \ {t.by} : t.after.client[k] = t.before.client[k]
    /\ \A k \in (t.from + 1)..t.to :
           out[k].ev \in {"send", "disconnect"} /\ out[k].to = t.by

\* C32: a frame of a client that has not completed the handshake changes no
\* room and no other client and sends nothing to anyone but its sender; an
\* IC, OOC, music, judge-sign, case, penalty, evidence or moderator-call
\* frame, or one of the two aliases, from such a client draws nothing at all
\* and leaves its sender unchecked.
C32_StrangerUnseen ==
    \A i \in 1..Len(trace) :
        Unchecked(trace[i]) =>
            /\ Unseen(trace[i])
            /\ trace[i].cmd \in RoomCommands =>
                   /\ trace[i].to = trace[i].from
                   /\ ~trace[i].after.client[trace[i].by].is_checked

\* the alias of the ban command, with its field, was sent before the
\* handshake and went unseen
C32_Witness ==
    /\ clock = MaxChunks
    /\ \E i \in 1..Len(trace) :
           /\ Unchecked(trace[i])
           /\ trace[i].cmd = <<"o", "p", "B", "A", "N">>
           /\ Len(trace[i].args) = 1
           /\ Unseen(trace[i])

\* the frame is a handshake with one token that is not empty, and neither
\* the sender's address nor the token is banned
CleanHandshake(t) ==
    /\ t.cmd = <<"H", "I">>
    /\ Len(t.args) = 1
    /\ t.args[1] # <<>>
    /\ find_ban(Ipid(t.by), t.args[1]) = NoBan

\* the frame drew the disconnection of its sender
Disconnects(t) ==
    /\ \E k \in (t.from + 1)..t.to : out[k].ev = "disconnect" /\ out[k].to = t.by
    /\ t.after.link[t.by].transport = "closing"

\* C33: a frame leaves checked every client that was, and makes checked no
\* client but its sender, and its sender only when it is a handshake with one
\* non-empty token and no ban is found; any other handshake of an unchecked
\* client leaves it unchecked; the handshake of a checked client disconnects
\* it.
C33_CheckedByHandshake ==
    \A i \in 1..Len(trace) :
        LET t == trace[i]
        IN /\ \A k \in Clients :
                  t.before.client[k].is_checked => t.after.client[k].is_checked
           /\ \A k \in Clients \ {t.by} :
                  t.after.client[k].is_checked => t.before.client[k].is_checked
           /\ (Unchecked(t) /\ t.after.client[t.by].is_checked) => CleanHandshake(t)
           /\ (Unchecked(t) /\ t.cmd = <<"H", "I">> /\ ~CleanHandshake(t)) =>
                  ~t.after.client[t.by].is_checked
           /\ (~Unchecked(t) /\ t.cmd = <<"H", "I">>) => Disconnects(t)

\* a client that completed the handshake in an earlier callback sends a
\* second handshake and is disconnected, still checked
C33_Witness ==
    \E i \in 1..Len(trace) :
        /\ trace[i].cmd = <<"H", "I">>
        /\ ~Unchecked(trace[i])
        /\ trace[i].before.client[trace[i].by].hdid = <<"h", "3">>
        /\ Disconnects(trace[i])
        /\ client[trace[i].by].is_checked

\* the room of the sender forbids blank posts when the frame arrives
Forbids(t) == ~RoomBefore(t).blankposting_allowed

\* the frame's text begins with the sub-command
Begins(t, word) == IsMs(t) /\ Len(t.args) >= 5 /\ StartsWith(t.args[5], word)

\* an IC message broadcast for the frame has a text without a character that
\* is not whitespace
BlankSent(o, t) == \E k \in Broadcasts(o, t) : ~NonBlank(o[k].args[5].v)

\* C34: in a room that forbids blank posts no IC message is broadcast with a
\* text that is empty or whitespace only, the texts that the sub-commands /a,
\* /s, /testify, /examine, /end, /amend, /add and /remove rewrite after the
\* blankposting check included.
C34_NeverBlank ==
    \A i \in 1..Len(trace) :
        (IsMs(trace[i]) /\ Forbids(trace[i])) => ~BlankSent(out, trace[i])

=============================================================================
